---- MODULE Spec2Model ----
(***************************************************************************)
(* Allocation engine of supplier_quote_optimizer.py: the Run Optimization  *)
(* block, the manual supplier selection and the Generate Final Allocation  *)
(* block, as a state machine over the Streamlit session state; and the     *)
(* login, session and user management functions of auth_utils.py.          *)
(*                                                                         *)
(* Quantities and prices are modelled as positive integers.                *)
(***************************************************************************)
EXTENDS Integers, Sequences, FiniteSets, TLC

VARIABLES
    order_file,           \* content of the order uploader: no file or one file
    quote_files,          \* content of the quote uploader: the files, in upload order
    load_status,          \* how the loading and validation of the last rerun ended
    orders,               \* cleaned order table (rows in file order)
    quotes_df,            \* cleaned, concatenated quote table (rows in upload order)
    supplier_selections,  \* st.session_state.supplier_selections : part -> supplier
    processing_complete,  \* st.session_state.processing_complete
    optimized_allocation, \* st.session_state.optimized_allocation
    final_allocation,     \* st.session_state.final_allocation (empty until first stored)
    argsort_ties,         \* order the build's quicksort argsort leaves equal keys in
    final_runs,           \* number of Generate Final Allocation runs so far (capped)
    now,                  \* datetime.now(), in minutes since the session began
    users_json,           \* the file users.json: whether it exists, and its users
    authenticated,        \* st.session_state.authenticated
    username,             \* st.session_state.username
    user_role,            \* st.session_state.user_role
    login_time,           \* st.session_state.login_time: << >> for None, else << t >>
    login_attempts,       \* st.session_state.login_attempts : username -> count, lockout_time
    session_token,        \* st.session_state.session_token
    returned              \* the last call of an auth_utils function and its return value

app_vars == << order_file, quote_files, load_status, orders, quotes_df,
               supplier_selections, processing_complete, optimized_allocation,
               final_allocation, argsort_ties, final_runs >>

auth_vars == << now, users_json, authenticated, username, user_role, login_time,
                login_attempts, session_token, returned >>

vars == << app_vars, auth_vars >>

----------------------------------------------------------------------------
(* Bounds of the model *)

MaxOrders == 2       \* rows of an order table
MaxQuotes == 2       \* rows of a quote table that quotes several parts
MaxPartQuotes == 3   \* rows of a quote table that quotes one part
MaxQty == 3
MaxPrice == 2
MaxAvail == 2
MaxUploadRows == 1   \* rows of a file uploaded during the session
MaxFinalRuns == 2    \* Generate Final Allocation runs followed in one session
MaxRawRows == 2      \* rows of a file with rows the cleaning drops
MaxQuoteFiles == 2   \* quote files of one upload
MaxTime == 17        \* minutes a session is followed

Parts == {"P1", "P2"}
Suppliers == {"SupA", "SupB"}

OrderRows == [PartNumber : Parts, QtyRequired : 1..MaxQty]
QuoteRows == [Supplier : Suppliers, PartNumber : Parts,
              UnitPrice : 1..MaxPrice, AvailableQty : 1..MaxAvail]

SeqsUpTo(S, n) == UNION {[1..k -> S] : k \in 0..n}

Selections == UNION {[D -> Suppliers] : D \in SUBSET Parts}

TieOrders == {"input", "reversed"}

----------------------------------------------------------------------------
(* pandas helpers *)

\* df[df['PartNumber'] == part]
RowsOfPart(df, part) == SelectSeq(df, LAMBDA r : r.PartNumber = part)

\* orders['PartNumber'].unique(): distinct parts in order of first occurrence
RECURSIVE UniqueFrom(_, _, _)
UniqueFrom(df, i, seen) ==
    IF i > Len(df) THEN << >>
    ELSE IF df[i].PartNumber \in seen THEN UniqueFrom(df, i + 1, seen)
    ELSE << df[i].PartNumber >> \o UniqueFrom(df, i + 1, seen \cup {df[i].PartNumber})

\* the distinct parts, last occurrence first
UniquePartsReversed(df) ==
    LET u == UniqueFrom(df, 1, {}) IN [i \in 1..Len(u) |-> u[Len(u) + 1 - i]]

UniqueParts(df) == UniqueFrom(df, 1, {})

\* orders[orders['PartNumber'] == part]['QtyRequired'].iloc[0]
FirstQty(df, part) == RowsOfPart(df, part)[1].QtyRequired

Reverse(s) == [i \in 1..Len(s) |-> s[Len(s) + 1 - i]]

\* insertion that keeps the dearest row first
RECURSIVE InsertByPriceDescending(_, _)
InsertByPriceDescending(sorted, r) ==
    IF sorted = << >> THEN << r >>
    ELSE IF r.UnitPrice > sorted[1].UnitPrice THEN << r >> \o sorted
    ELSE << sorted[1] >> \o InsertByPriceDescending(Tail(sorted), r)

\* insertion of one row into a price-sorted sequence, after the rows of equal price
RECURSIVE InsertByPrice(_, _)
InsertByPrice(sorted, r) ==
    IF sorted = << >> THEN << r >>
    ELSE IF r.UnitPrice < sorted[1].UnitPrice THEN << r >> \o sorted
    ELSE << sorted[1] >> \o InsertByPrice(Tail(sorted), r)

\* the rows left in input order
Unsorted(df) == df

RECURSIVE StableSort(_)
StableSort(df) ==
    IF df = << >> THEN << >>
    ELSE InsertByPrice(StableSort(SubSeq(df, 1, Len(df) - 1)), df[Len(df)])

\* df.sort_values('UnitPrice') with the default kind='quicksort': ascending by
\* price; the relative order of rows of equal price is whatever the build's
\* argsort leaves (ties).
SortValues(df, ties) ==
    IF ties = "input" THEN StableSort(df) ELSE StableSort(Reverse(df))

\* the whole open quantity taken, whatever the quote offers
TakeNeeded(a, b) == a

Min(a, b) == IF a <= b THEN a ELSE b

----------------------------------------------------------------------------
(* The greedy walk shared by the three allocation loops *)

\* for _, q in rows.iterrows(): if qty_needed <= 0: break;
\* alloc_qty = min(qty_needed, q['AvailableQty']); [if alloc_qty > 0:] emit; subtract.
\* Yields the (row, alloc_qty) pairs emitted and the quantity left.
RECURSIVE GreedyWalk(_, _, _)
GreedyWalk(rows, qty_needed, onlyPositive) ==
    IF rows = << >> \/ qty_needed <= 0
    THEN [taken |-> << >>, left |-> qty_needed]
    ELSE LET q == rows[1]
             alloc_qty == Min(qty_needed, q.AvailableQty)
         IN  IF onlyPositive /\ ~(alloc_qty > 0)
             THEN GreedyWalk(Tail(rows), qty_needed, onlyPositive)
             ELSE LET rest == GreedyWalk(Tail(rows), qty_needed - alloc_qty, onlyPositive)
                  IN  [taken |-> << [row |-> q, alloc_qty |-> alloc_qty] >> \o rest.taken,
                       left  |-> rest.left]

----------------------------------------------------------------------------
(* Run Optimization *)

NotAvailableLine(part, qty_needed) ==
    [PartNumber |-> part, Supplier |-> "NOT AVAILABLE", AllocatedQty |-> 0,
     UnitPrice |-> 0, Total |-> 0, QtyRequired |-> qty_needed,
     Status |-> "Not Available"]

AllocatedLine(part, t, original_qty_needed) ==
    [PartNumber |-> part, Supplier |-> t.row.Supplier, AllocatedQty |-> t.alloc_qty,
     UnitPrice |-> t.row.UnitPrice, Total |-> t.alloc_qty * t.row.UnitPrice,
     QtyRequired |-> original_qty_needed, Status |-> "Allocated"]

\* the shortage record carrying the ordered instead of the open quantity
OptShortageLineOrdered(part, qty_needed, original_qty_needed) ==
    [PartNumber |-> part, Supplier |-> "SHORTAGE", AllocatedQty |-> original_qty_needed,
     UnitPrice |-> 0, Total |-> 0, QtyRequired |-> original_qty_needed,
     Status |-> "Shortage"]

OptShortageLine(part, qty_needed, original_qty_needed) ==
    [PartNumber |-> part, Supplier |-> "SHORTAGE", AllocatedQty |-> qty_needed,
     UnitPrice |-> 0, Total |-> 0, QtyRequired |-> original_qty_needed,
     Status |-> "Shortage"]

\* body of the loop over the order rows, for one row
OptimizeOrder(order, quotes, ties) ==
    LET part == order.PartNumber
        original_qty_needed == order.QtyRequired
        part_quotes == RowsOfPart(quotes, part)
    IN  IF part_quotes = << >>
        THEN << NotAvailableLine(part, original_qty_needed) >>
        ELSE LET w == GreedyWalk(SortValues(part_quotes, ties), original_qty_needed, TRUE)
                 lines == [k \in 1..Len(w.taken) |->
                              AllocatedLine(part, w.taken[k], original_qty_needed)]
             IN  IF w.left = 0 THEN lines
                 ELSE IF w.left < original_qty_needed
                      THEN Append(lines, OptShortageLine(part, w.left, original_qty_needed))
                      ELSE lines

RECURSIVE RunOptimization(_, _, _)
RunOptimization(ords, quotes, ties) ==
    IF ords = << >> THEN << >>
    ELSE OptimizeOrder(ords[1], quotes, ties) \o RunOptimization(Tail(ords), quotes, ties)

----------------------------------------------------------------------------
(* Generate Final Allocation *)

FinalLine(part, supplier, qty, unit_price, source) ==
    [PartNumber |-> part, Supplier |-> supplier, QtyAllocated |-> qty,
     UnitPrice |-> unit_price, TotalCost |-> qty * unit_price,
     AllocationSource |-> source]

FinalShortageLine(part, qty_needed) ==
    FinalLine(part, "N/A (SHORTAGE)", qty_needed, 0, "Shortage")

WalkLines(part, taken, source) ==
    [k \in 1..Len(taken) |->
        FinalLine(part, taken[k].row.Supplier, taken[k].alloc_qty,
                  taken[k].row.UnitPrice, source)]

\* quotes_df[(PartNumber == part) & (Supplier.astype(str) == selected_supplier)]
SelectedQuotes(quotes, part, selected_supplier) ==
    SelectSeq(quotes, LAMBDA r : r.PartNumber = part /\ r.Supplier = selected_supplier)

\* the remaining quotes without the supplier filter
RemainingQuotesAnySupplier(quotes, part, selected_supplier) ==
    SelectSeq(quotes, LAMBDA r : r.PartNumber = part /\ r.AvailableQty > 0)

\* quotes_df[(PartNumber == part) & (Supplier.astype(str) != selected_supplier)
\*           & (AvailableQty > 0)]
RemainingQuotes(quotes, part, selected_supplier) ==
    SelectSeq(quotes, LAMBDA r : /\ r.PartNumber = part
                                 /\ r.Supplier # selected_supplier
                                 /\ r.AvailableQty > 0)

\* the comparison made strict
CoversMore(available_qty, qty_needed) == available_qty > qty_needed

\* if available_qty >= qty_needed
CoversAll(available_qty, qty_needed) == available_qty >= qty_needed

\* the whole quantity stays open after the partial pin (the assignment is skipped)
QtyNeededUnassigned(qty_needed, remaining_qty) == qty_needed

\* qty_needed = remaining_qty
QtyNeededAfterPartial(qty_needed, remaining_qty) == remaining_qty

\* the branch taken when the part is a key of supplier_selections
PinnedPart(part, qty_needed, selected_supplier, quotes, ties) ==
    LET part_quotes == SelectedQuotes(quotes, part, selected_supplier)
    IN  IF part_quotes # << >>
        THEN LET supplier_quote == part_quotes[1]
                 available_qty == supplier_quote.AvailableQty
                 unit_price == supplier_quote.UnitPrice
             IN  IF CoversAll(available_qty, qty_needed)
                 THEN [lines |-> << FinalLine(part, selected_supplier, qty_needed,
                                              unit_price, "Manual Selection") >>,
                       left  |-> 0]
                 ELSE LET remaining_quotes ==
                              SortValues(RemainingQuotes(quotes, part,
                                                         selected_supplier), ties)
                          w == GreedyWalk(remaining_quotes,
                                          qty_needed - available_qty, FALSE)
                      IN  [lines |-> << FinalLine(part, selected_supplier, available_qty,
                                           unit_price, "Manual Selection (Partial)") >>
                                     \o WalkLines(part, w.taken,
                                                  "Auto-Optimized (Remaining)"),
                           left  |-> QtyNeededAfterPartial(qty_needed, w.left)]
        ELSE [lines |-> << >>, left |-> qty_needed]

\* the label of the lines that follow a partial manual selection
RemainingSource == "Auto-Optimized (Remaining)"

\* 'AllocationSource': 'Auto-Optimized'
AutoSource == "Auto-Optimized"

\* the else branch: the part has no manual selection
AutoPart(part, qty_needed, quotes, ties) ==
    LET w == GreedyWalk(SortValues(RowsOfPart(quotes, part), ties), qty_needed, TRUE)
    IN  [lines |-> WalkLines(part, w.taken, AutoSource), left |-> w.left]

\* body of the loop over orders['PartNumber'].unique(), for one part
FinalPart(part, ords, quotes, sel, ties) ==
    LET qty_needed == FirstQty(ords, part)
        r == IF part \in DOMAIN sel
             THEN PinnedPart(part, qty_needed, sel[part], quotes, ties)
             ELSE AutoPart(part, qty_needed, quotes, ties)
    IN  IF r.left > 0 THEN Append(r.lines, FinalShortageLine(part, r.left))
        ELSE r.lines

\* the list of the previous run kept instead of a fresh one
KeptFinalList(stored) == stored

\* final_allocation = []
NewFinalList(stored) == << >>

RECURSIVE FinalLoop(_, _, _, _, _, _)
FinalLoop(acc, parts, ords, quotes, sel, ties) ==
    IF parts = << >> THEN acc
    ELSE FinalLoop(acc \o FinalPart(parts[1], ords, quotes, sel, ties),
                   Tail(parts), ords, quotes, sel, ties)

GenerateFinal(stored, ords, quotes, sel, ties) ==
    FinalLoop(NewFinalList(stored), UniqueParts(ords), ords, quotes, sel, ties)

----------------------------------------------------------------------------
(* Orders by Supplier and the Suppliers sheet *)

\* every supplier value taken for a supplier to order from
AnySupplier(supplier) == TRUE

\* if supplier not in ['NOT AVAILABLE', 'SHORTAGE', 'N/A (SHORTAGE)']
RealSupplier(supplier) ==
    supplier \notin {"NOT AVAILABLE", "SHORTAGE", "N/A (SHORTAGE)"}

\* final_df['Supplier'].unique(), the keys of final_df.groupby('Supplier')
SupplierKeys(final_df) == {final_df[k].Supplier : k \in 1..Len(final_df)}

\* final_df[final_df['Supplier'] == supplier], one group of the groupby
SupplierData(final_df, supplier) ==
    SelectSeq(final_df, LAMBDA row : row.Supplier = supplier)

\* the columns written to a supplier's order file and to its sheet section
OrderColumns(row) ==
    [PartNumber |-> row.PartNumber, QtyAllocated |-> row.QtyAllocated,
     UnitPrice |-> row.UnitPrice, TotalCost |-> row.TotalCost]

\* the loop over a supplier's rows adding up quantity and cost
RECURSIVE SupplierTotals(_, _, _)
SupplierTotals(rows, supplier_total_qty, supplier_total_amount) ==
    IF rows = << >>
    THEN [qty |-> supplier_total_qty, amount |-> supplier_total_amount]
    ELSE SupplierTotals(Tail(rows), supplier_total_qty + rows[1].QtyAllocated,
                        supplier_total_amount + rows[1].TotalCost)

\* "Orders by Supplier": per group a caption (parts, total cost) and the
\* CSV / Excel download of the group's lines
OrdersBySupplier(final_df) ==
    [supplier \in {s \in SupplierKeys(final_df) : RealSupplier(s)} |->
        LET group == SupplierData(final_df, supplier)
        IN  [Parts     |-> Len(group),
             TotalCost |-> SupplierTotals(group, 0, 0).amount,
             Download  |-> [k \in 1..Len(group) |-> OrderColumns(group[k])]]]

\* the sections of the sheet 'Suppliers': header, lines and SUBTOTAL of each
\* supplier (the sections follow each other in the sorted order of the names;
\* the model keeps them by name)
SupplierSections(final_df) ==
    [supplier \in {s \in SupplierKeys(final_df) : RealSupplier(s)} |->
        LET supplier_data == SupplierData(final_df, supplier)
            totals == SupplierTotals(supplier_data, 0, 0)
        IN  [rows |-> [k \in 1..Len(supplier_data) |-> OrderColumns(supplier_data[k])],
             supplier_total_qty    |-> totals.qty,
             supplier_total_amount |-> totals.amount]]

\* grand_total_qty += supplier_total_qty; grand_total_amount += ...
RECURSIVE GrandTotals(_, _, _, _)
GrandTotals(sections, todo, grand_total_qty, grand_total_amount) ==
    IF todo = {}
    THEN [qty |-> grand_total_qty, amount |-> grand_total_amount]
    ELSE LET supplier == CHOOSE s \in todo : TRUE
         IN  GrandTotals(sections, todo \ {supplier},
                         grand_total_qty + sections[supplier].supplier_total_qty,
                         grand_total_amount + sections[supplier].supplier_total_amount)

\* the order rows whose part has no row in the quote table
create_not_available_sheet(order_df, quote_df) ==
    LET quoted_parts == {quote_df[k].PartNumber : k \in 1..Len(quote_df)}
    IN  SelectSeq(order_df, LAMBDA row : row.PartNumber \notin quoted_parts)

\* the rows of final_df with supplier 'N/A (SHORTAGE)', as N/A items
ShortageItems(final_df) ==
    LET shortage_data == SelectSeq(final_df, LAMBDA row : row.Supplier = "N/A (SHORTAGE)")
    IN  [k \in 1..Len(shortage_data) |->
            [PartNumber  |-> shortage_data[k].PartNumber,
             QtyRequired |-> shortage_data[k].QtyAllocated,
             Type        |-> "Shortage"]]

\* the shortage items first, then the not available order rows whose part is
\* not among the shortage items
AllNaItems(final_df, quote_df, order_df) ==
    LET shortage_items == ShortageItems(final_df)
        shortage_part_numbers ==
            {shortage_items[k].PartNumber : k \in 1..Len(shortage_items)}
        not_available_df ==
            SelectSeq(create_not_available_sheet(order_df, quote_df),
                      LAMBDA row : row.PartNumber \notin shortage_part_numbers)
    IN  shortage_items \o
        [k \in 1..Len(not_available_df) |->
            [PartNumber  |-> not_available_df[k].PartNumber,
             QtyRequired |-> not_available_df[k].QtyRequired,
             Type        |-> "Not Available"]]

\* not_available_total_qty += qty, and order_df['QtyRequired'].sum()
RECURSIVE SumQtyRequired(_)
SumQtyRequired(rows) ==
    IF rows = << >> THEN 0
    ELSE rows[1].QtyRequired + SumQtyRequired(Tail(rows))

\* the sheet 'Suppliers': the supplier sections, the GRAND TOTAL row (written
\* when the total quantity is positive), the N/A block with its SUBTOTAL - N/A
\* row (written when there is an N/A item) and the TOTAL QTY row
create_combined_suppliers_sheet(final_df, quote_df, order_df) ==
    LET sections == SupplierSections(final_df)
        grand == GrandTotals(sections, DOMAIN sections, 0, 0)
        all_na_items == AllNaItems(final_df, quote_df, order_df)
    IN  [sections                |-> sections,
         grand_total_row         |-> grand.qty > 0,
         grand_total_qty         |-> grand.qty,
         grand_total_amount      |-> grand.amount,
         all_na_items            |-> all_na_items,
         subtotal_na_row         |-> all_na_items # << >>,
         not_available_total_qty |-> SumQtyRequired(all_na_items),
         total_qty_required      |-> SumQtyRequired(order_df)]

----------------------------------------------------------------------------
(* Cost Analysis *)

\* sum([item['Total'] for item in optimized_allocation if item['Status'] == 'Allocated'])
RECURSIVE auto_cost(_)
auto_cost(allocation) ==
    IF allocation = << >> THEN 0
    ELSE (IF allocation[1].Status = "Allocated" THEN allocation[1].Total ELSE 0)
             + auto_cost(Tail(allocation))

\* manual_cost += qty * unit_price, over the entries appended for one part
RECURSIVE CostOfLines(_)
CostOfLines(lines) ==
    IF lines = << >> THEN 0
    ELSE lines[1].TotalCost + CostOfLines(Tail(lines))

\* body of the loop over orders['PartNumber'].unique(): a part with a manual
\* selection is costed by the same steps as in Generate Final Allocation
\* (selected supplier first, the rest from the other suppliers by price); a
\* part without a selection adds nothing, the loop has no else branch
ManualPartCost(part, ords, quotes, sel, ties) ==
    IF part \in DOMAIN sel
    THEN CostOfLines(PinnedPart(part, FirstQty(ords, part), sel[part], quotes, ties).lines)
    ELSE 0

RECURSIVE ManualCostLoop(_, _, _, _, _, _)
ManualCostLoop(manual_cost, parts, ords, quotes, sel, ties) ==
    IF parts = << >> THEN manual_cost
    ELSE ManualCostLoop(manual_cost + ManualPartCost(parts[1], ords, quotes, sel, ties),
                        Tail(parts), ords, quotes, sel, ties)

\* the metric "Manual Override Cost"
manual_cost(ords, quotes, sel, ties) ==
    ManualCostLoop(0, UniqueParts(ords), ords, quotes, sel, ties)

\* the metric "Cost Difference": cost_diff = manual_cost - auto_cost
cost_diff(allocation, ords, quotes, sel, ties) ==
    manual_cost(ords, quotes, sel, ties) - auto_cost(allocation)

----------------------------------------------------------------------------
(* Data Loading and Validation *)

\* a cell of a numeric column as read_excel returns it
Num(n) == [kind |-> "number", val |-> n]
Text == [kind |-> "text", val |-> 0]      \* a string that is not a number
Blank == [kind |-> "blank", val |-> 0]    \* an empty cell (NaN)

\* an empty cell of the part column (NaN)
NaN == "<NaN>"

\* a data column the file does not have
NoColumn == "<none>"

\* pd.to_numeric(column, errors='coerce').fillna(0), for one cell
ToNumeric(c) == IF c.kind = "number" THEN c.val ELSE 0

\* col.strip().lower(), for the headers of the model's files (the headers
\* not listed are lower-case already)
CleanLower(col) ==
    CASE col = "PartNumber" -> "partnumber"
      [] col = "Part Number" -> "part number"
      [] col = "QtyRequired" -> "qtyrequired"
      [] col = "Qty" -> "qty"
      [] col = "UnitPrice" -> "unitprice"
      [] col = "Price" -> "price"
      [] col = "AvailableQty" -> "availableqty"
      [] col = "Supplier" -> "supplier"
      [] col = "Vendor" -> "vendor"
      [] col = "Company" -> "company"
      [] OTHER -> col

\* the name normalize_column_names gives the column col
normalize_column_names(col) ==
    IF CleanLower(col) \in {"part_number", "part number", "partnumber", "part"}
    THEN "PartNumber"
    ELSE IF CleanLower(col) \in {"qty_required", "qty required", "qtyrequired",
                                 "quantity", "qty"}
    THEN "QtyRequired"
    ELSE IF CleanLower(col) \in {"unit_price", "unit price", "unitprice", "price"}
    THEN "UnitPrice"
    ELSE IF CleanLower(col) \in {"available_qty", "available qty", "availableqty",
                                 "available", "stock"}
    THEN "AvailableQty"
    ELSE IF CleanLower(col) \in {"supplier", "vendor", "company"}
    THEN "Supplier"
    ELSE col

required_order_cols == {"PartNumber", "QtyRequired"}
required_quote_cols == {"Supplier", "PartNumber", "UnitPrice", "AvailableQty"}

\* A file is a record: `columns` gives, for each kind of data, the header the
\* file keeps it under (NoColumn if it has none); `rows` are its data rows; a
\* quote file also has its `name`, the sequence of the parts between the dots.

\* headers of the order file
OrderHeaders(f) == {f.columns.PartNumber, f.columns.QtyRequired} \ {NoColumn}

\* headers of a quote file after df['Supplier'] = quote_file.name.split('.')[0]
QuoteHeaders(f) ==
    ({f.columns.Supplier, f.columns.PartNumber, f.columns.UnitPrice,
      f.columns.AvailableQty} \ {NoColumn}) \cup {"Supplier"}

\* headers of pd.concat(quotes_list)
ConcatHeaders(files) == UNION {QuoteHeaders(files[i]) : i \in 1..Len(files)}

\* number of columns that carry the name `name` after normalize_column_names
ColumnCount(headers, name) ==
    Cardinality({h \in headers : normalize_column_names(h) = name})

\* the required columns that are not among the normalized columns
MissingColumns(headers, required) ==
    {c \in required : ColumnCount(headers, c) = 0}

\* quote_file.name.split('.')[0]
FileSupplier(f) == f.name[1]

\* the rows of one quote file in the concatenated, normalized table: the
\* Supplier column holds the file name; a data column the file keeps under a
\* header that does not normalize to the column's name is empty
QuoteFileRows(f) ==
    [k \in 1..Len(f.rows) |->
        [Supplier |-> FileSupplier(f),
         PartNumber |->
             IF normalize_column_names(f.columns.PartNumber) = "PartNumber"
             THEN f.rows[k].PartNumber ELSE NaN,
         UnitPrice |->
             IF normalize_column_names(f.columns.UnitPrice) = "UnitPrice"
             THEN f.rows[k].UnitPrice ELSE Blank,
         AvailableQty |->
             IF normalize_column_names(f.columns.AvailableQty) = "AvailableQty"
             THEN f.rows[k].AvailableQty ELSE Blank]]

\* pd.concat(quotes_list, ignore_index=True)
RECURSIVE ConcatQuotes(_)
ConcatQuotes(files) ==
    IF files = << >> THEN << >>
    ELSE QuoteFileRows(files[1]) \o ConcatQuotes(Tail(files))

\* to_numeric(...).fillna(0) on QtyRequired
NumericOrders(rows) ==
    [k \in 1..Len(rows) |->
        [PartNumber |-> rows[k].PartNumber,
         QtyRequired |-> ToNumeric(rows[k].QtyRequired)]]

\* to_numeric(...).fillna(0) on UnitPrice and AvailableQty
NumericQuotes(rows) ==
    [k \in 1..Len(rows) |->
        [Supplier |-> rows[k].Supplier,
         PartNumber |-> rows[k].PartNumber,
         UnitPrice |-> ToNumeric(rows[k].UnitPrice),
         AvailableQty |-> ToNumeric(rows[k].AvailableQty)]]

\* orders[orders['QtyRequired'] > 0]; orders[orders['PartNumber'].notna()]
FilterOrders(rows) ==
    SelectSeq(SelectSeq(rows, LAMBDA r : r.QtyRequired > 0),
              LAMBDA r : r.PartNumber # NaN)

\* quotes_df[(quotes_df['UnitPrice'] > 0) & (quotes_df['AvailableQty'] > 0)]
FilterQuotes(rows) ==
    SelectSeq(rows, LAMBDA r : r.UnitPrice > 0 /\ r.AvailableQty > 0)

Halted(how) == [status |-> how, orders |-> << >>, quotes_df |-> << >>]

\* The script from `if order_file and quote_files:` to the end of the data
\* cleaning: how it ends, and the tables it hands to the blocks below.
\*   waiting   : a file is not uploaded yet, nothing is processed
\*   exception : an exception reaches `except Exception` (error shown)
\*   stopped   : st.error and st.stop()
\*   ok        : both cleaned tables are non-empty
\* The order file has one column per name in the model's files; of the quote
\* files only the Supplier column can be there twice.
LoadData(ofiles, qfiles) ==
    IF ofiles = << >> \/ qfiles = << >> THEN Halted("waiting")
    ELSE
    LET order_headers == OrderHeaders(ofiles[1])
        quote_headers == ConcatHeaders(qfiles)
        raw_quotes == ConcatQuotes(qfiles)
        cleaned_orders == FilterOrders(NumericOrders(ofiles[1].rows))
        cleaned_quotes == FilterQuotes(NumericQuotes(raw_quotes))
    IN  \* quotes_df['Supplier'].unique() on two columns named Supplier
        IF ColumnCount(quote_headers, "Supplier") > 1 THEN Halted("exception")
        \* supplier_data[['PartNumber', 'UnitPrice', 'AvailableQty']]: KeyError
        ELSE IF raw_quotes # << >>
                /\ MissingColumns(quote_headers, required_quote_cols) # {}
        THEN Halted("exception")
        ELSE IF MissingColumns(order_headers, required_order_cols) # {}
        THEN Halted("stopped")
        ELSE IF MissingColumns(quote_headers, required_quote_cols) # {}
        THEN Halted("stopped")
        ELSE IF cleaned_orders = << >> THEN Halted("stopped")
        ELSE IF cleaned_quotes = << >> THEN Halted("stopped")
        ELSE [status |-> "ok", orders |-> cleaned_orders,
              quotes_df |-> cleaned_quotes]

----------------------------------------------------------------------------
(* The files of the model *)

StdOrderColumns == [PartNumber |-> "PartNumber", QtyRequired |-> "QtyRequired"]

StdQuoteColumns ==
    [Supplier |-> NoColumn, PartNumber |-> "PartNumber",
     UnitPrice |-> "UnitPrice", AvailableQty |-> "AvailableQty"]

\* what a file's own supplier column holds
InFileSupplier == "Acme"

ValidOrderRow == [PartNumber |-> "P1", QtyRequired |-> Num(MaxQty)]

ValidQuoteRow ==
    [Supplier |-> InFileSupplier, PartNumber |-> "P1",
     UnitPrice |-> Num(MaxPrice), AvailableQty |-> Num(MaxAvail)]

\* what the operator puts into the order uploader during a session (Spec):
\* nothing, or a file of valid rows
OrderFiles ==
    {<< >>}
    \cup {<< [columns |-> StdOrderColumns, rows |-> r] >> :
             r \in SeqsUpTo([PartNumber : Parts,
                             QtyRequired : {Num(1), Num(MaxQty)}],
                            MaxUploadRows) \ {<< >>}}

\* what the operator puts into the quote uploader during a session (Spec):
\* nothing, or a file of valid rows
QuoteFiles ==
    {<< >>}
    \cup {<< [name |-> << s, "xlsx" >>, columns |-> StdQuoteColumns, rows |-> r] >> :
             s \in Suppliers,
             r \in SeqsUpTo([Supplier : {InFileSupplier}, PartNumber : Parts,
                             UnitPrice : {Num(MaxPrice)},
                             AvailableQty : {Num(MaxAvail)}],
                            MaxUploadRows) \ {<< >>}}

\* the order files of SpecLoad: a valid row under each layout of headers,
\* and every table of up to MaxRawRows raw rows under the standard headers
OrderLayouts ==
    {StdOrderColumns,
     [PartNumber |-> "Part Number", QtyRequired |-> "Qty"],
     [StdOrderColumns EXCEPT !.PartNumber = "item"],
     [StdOrderColumns EXCEPT !.QtyRequired = "amount"]}

RawOrderRows == [PartNumber : {"P1", NaN}, QtyRequired : {Num(MaxQty), Num(0), Text}]

RawOrderFiles ==
    {<< >>}
    \cup {<< [columns |-> c, rows |-> << ValidOrderRow >>] >> : c \in OrderLayouts}
    \cup {<< [columns |-> StdOrderColumns, rows |-> r] >> :
             r \in SeqsUpTo(RawOrderRows, MaxRawRows)}

\* the quote uploads of SpecLoad: up to MaxQuoteFiles files of one layout of
\* headers with a valid row each, and one file with every table of up to
\* MaxRawRows raw rows under the standard headers
QuoteLayouts ==
    {[StdQuoteColumns EXCEPT !.Supplier = s, !.UnitPrice = u] :
        s \in {NoColumn, "Supplier", "supplier", "Vendor", "Company"},
        u \in {"UnitPrice", "Price", "cost"}}

LoadFileNames == {<< "SupA", "xlsx" >>, << "SupB", "v2", "xlsx" >>}

RawQuoteRows ==
    [Supplier : {InFileSupplier}, PartNumber : {"P1", NaN},
     UnitPrice : {Num(MaxPrice), Text}, AvailableQty : {Num(MaxAvail), Num(-1)}]

RawQuoteFiles ==
    {<< >>}
    \cup UNION {{[k \in 1..n |->
                     [name |-> names[k], columns |-> c, rows |-> << ValidQuoteRow >>]] :
                    names \in [1..n -> LoadFileNames], c \in QuoteLayouts} :
                n \in 1..MaxQuoteFiles}
    \cup {<< [name |-> << "SupA", "xlsx" >>, columns |-> StdQuoteColumns,
              rows |-> r] >> :
             r \in SeqsUpTo(RawQuoteRows, MaxRawRows)}

\* files that load into given cleaned tables: the order rows in one file,
\* each quote row in a file of its supplier's name
FileOfOrders(ords) ==
    << [columns |-> StdOrderColumns,
        rows |-> [k \in 1..Len(ords) |->
                     [PartNumber |-> ords[k].PartNumber,
                      QtyRequired |-> Num(ords[k].QtyRequired)]]] >>

FilesOfQuotes(quotes) ==
    [k \in 1..Len(quotes) |->
        [name |-> << quotes[k].Supplier, "xlsx" >>,
         columns |-> StdQuoteColumns,
         rows |-> << [Supplier |-> InFileSupplier,
                      PartNumber |-> quotes[k].PartNumber,
                      UnitPrice |-> Num(quotes[k].UnitPrice),
                      AvailableQty |-> Num(quotes[k].AvailableQty)] >>]]

----------------------------------------------------------------------------
(* auth_utils.py: login, session and user management *)

\* AUTH_CONFIG
session_timeout_minutes == 10

max_login_attempts == 3

lockout_duration_minutes == 15

\* Python's None, for a name, a role, a token or a return value
None == "<None>"

\* None for a time; the time t is kept as << t >>
NoTime == << >>

\* hashlib.sha256(password.encode()).hexdigest(): one digest per password
hash_password(password) == << "sha256", password >>

\* hmac.compare_digest(hash_password(password), password_hash)
verify_password(password, password_hash) == hash_password(password) = password_hash

\* the one default user; its password_hash is the SHA-256 of '0506334625'
DEFAULT_USERS ==
    [u \in {"aman"} |->
        [password_hash |-> hash_password("0506334625"), role |-> "admin"]]

\* no file users.json
NoUsersFile == [exists |-> FALSE, users |-> << >>]

\* the users of the file if it exists, else a copy of DEFAULT_USERS
load_users(file) == IF file.exists THEN file.users ELSE DEFAULT_USERS

\* json.dump(users, f): the file users.json holding users
save_users(users) == [exists |-> TRUE, users |-> users]

\* {'count': 0, 'lockout_time': None}
NoAttempts == [count |-> 0, lockout_time |-> NoTime]

\* the lockout taken for over when the lockout duration is reached
LockoutOverEarly(elapsed) == elapsed >= lockout_duration_minutes

\* datetime.now() - lockout_time > lockout_duration
LockoutOver(elapsed) == elapsed > lockout_duration_minutes

\* the return value, and login_attempts as the call leaves it
is_user_locked_out(attempts, user, t) ==
    IF user \notin DOMAIN attempts
    THEN [value |-> FALSE, login_attempts |-> attempts]
    ELSE IF attempts[user].count < max_login_attempts
    THEN [value |-> FALSE, login_attempts |-> attempts]
    ELSE IF LockoutOver(t - attempts[user].lockout_time[1])
    THEN [value |-> FALSE,
          login_attempts |-> [attempts EXCEPT ![user] = NoAttempts]]
    ELSE [value |-> TRUE, login_attempts |-> attempts]

\* login_attempts after one more failed login of user at time t
record_failed_login(attempts, user, t) ==
    LET known == [u \in DOMAIN attempts \cup {user} |->
                     IF u \in DOMAIN attempts THEN attempts[u] ELSE NoAttempts]
        count == known[user].count + 1
    IN  [known EXCEPT ![user] =
            [count |-> count,
             lockout_time |-> IF count >= max_login_attempts
                              THEN << t >> ELSE known[user].lockout_time]]

\* the attempts left as they are after a successful login
KeepLoginAttempts(attempts, user) == attempts

reset_login_attempts(attempts, user) ==
    IF user \in DOMAIN attempts
    THEN [attempts EXCEPT ![user] = NoAttempts]
    ELSE attempts

\* the return values True and False
True == "True"

False == "False"

\* a call of the function named call with arguments args that returned value
Call(call, args, value) == [call |-> call, args |-> args, value |-> value]

session_vars == << authenticated, username, user_role, login_time, session_token >>

authenticate_user(user, password) ==
    LET check == is_user_locked_out(login_attempts, user, now)
        users == load_users(users_json)
    IN  /\ IF check.value
           THEN /\ login_attempts' = check.login_attempts
                /\ returned' = Call("authenticate_user", << user, password >>, False)
                /\ UNCHANGED session_vars
           ELSE IF \/ user \notin DOMAIN users
                   \/ ~verify_password(password, users[user].password_hash)
           THEN /\ login_attempts' = record_failed_login(check.login_attempts, user, now)
                /\ returned' = Call("authenticate_user", << user, password >>, False)
                /\ UNCHANGED session_vars
           ELSE /\ login_attempts' = reset_login_attempts(check.login_attempts, user)
                /\ authenticated' = TRUE
                /\ username' = user
                /\ user_role' = users[user].role
                /\ login_time' = << now >>
                /\ session_token' = "token_urlsafe"
                /\ returned' = Call("authenticate_user", << user, password >>, True)
        /\ UNCHANGED << now, users_json >>
        /\ UNCHANGED app_vars

\* the assignments of logout_user()
ClearSession ==
    /\ authenticated' = FALSE
    /\ username' = None
    /\ user_role' = None
    /\ login_time' = NoTime
    /\ session_token' = None

logout_user ==
    /\ ClearSession
    /\ returned' = Call("logout_user", << >>, None)
    /\ UNCHANGED << now, users_json, login_attempts >>
    /\ UNCHANGED app_vars

\* a session that never times out
SessionNeverTimedOut(session_duration) == FALSE

\* if session_duration > timeout_duration
SessionTimedOut(session_duration) == session_duration > session_timeout_minutes

is_session_valid ==
    /\ IF ~authenticated \/ login_time = NoTime
       THEN /\ returned' = Call("is_session_valid", << >>, False)
            /\ UNCHANGED session_vars
       ELSE IF SessionTimedOut(now - login_time[1])
       THEN /\ ClearSession
            /\ returned' = Call("is_session_valid", << >>, False)
       ELSE /\ returned' = Call("is_session_valid", << >>, True)
            /\ UNCHANGED session_vars
    /\ UNCHANGED << now, users_json, login_attempts >>
    /\ UNCHANGED app_vars

refresh_session ==
    /\ IF authenticated
       THEN /\ login_time' = << now >>
            /\ returned' = Call("refresh_session", << >>, True)
       ELSE /\ returned' = Call("refresh_session", << >>, False)
            /\ UNCHANGED login_time
    /\ UNCHANGED << now, users_json, login_attempts, authenticated, username,
                    user_role, session_token >>
    /\ UNCHANGED app_vars

\* every session taken for an administrator's
AnyRole(role) == TRUE

\* st.session_state.user_role != 'admin', negated
IsAdmin(role) == role = "admin"

create_new_user(user, password, role) ==
    LET users == load_users(users_json)
    IN  /\ IF ~IsAdmin(user_role) \/ user \in DOMAIN users
           THEN /\ returned' = Call("create_new_user", << user, password, role >>, False)
                /\ UNCHANGED users_json
           ELSE /\ users_json' =
                       save_users([u \in DOMAIN users \cup {user} |->
                                      IF u = user
                                      THEN [password_hash |-> hash_password(password),
                                            role |-> role]
                                      ELSE users[u]])
                /\ returned' = Call("create_new_user", << user, password, role >>, True)
        /\ UNCHANGED << now, login_attempts >>
        /\ UNCHANGED session_vars
        /\ UNCHANGED app_vars

delete_user(user) ==
    LET users == load_users(users_json)
    IN  /\ IF ~IsAdmin(user_role) \/ user = "admin" \/ user \notin DOMAIN users
           THEN /\ returned' = Call("delete_user", << user >>, False)
                /\ UNCHANGED users_json
           ELSE /\ users_json' = save_users([u \in DOMAIN users \ {user} |-> users[u]])
                /\ returned' = Call("delete_user", << user >>, True)
        /\ UNCHANGED << now, login_attempts >>
        /\ UNCHANGED session_vars
        /\ UNCHANGED app_vars

update_user_password(user, new_password) ==
    LET users == load_users(users_json)
    IN  /\ IF ~IsAdmin(user_role) \/ user \notin DOMAIN users
           THEN /\ returned' = Call("update_user_password", << user, new_password >>, False)
                /\ UNCHANGED users_json
           ELSE /\ users_json' =
                       save_users([users EXCEPT ![user].password_hash =
                                                    hash_password(new_password)])
                /\ returned' = Call("update_user_password", << user, new_password >>, True)
        /\ UNCHANGED << now, login_attempts >>
        /\ UNCHANGED session_vars
        /\ UNCHANGED app_vars

update_user_role(user, new_role) ==
    LET users == load_users(users_json)
    IN  /\ IF ~IsAdmin(user_role) \/ user = "admin" \/ user \notin DOMAIN users
           THEN /\ returned' = Call("update_user_role", << user, new_role >>, False)
                /\ UNCHANGED users_json
           ELSE /\ users_json' = save_users([users EXCEPT ![user].role = new_role])
                /\ returned' = Call("update_user_role", << user, new_role >>, True)
        /\ UNCHANGED << now, login_attempts >>
        /\ UNCHANGED session_vars
        /\ UNCHANGED app_vars

\* a minute passes
Tick ==
    /\ now < MaxTime
    /\ now' = now + 1
    /\ UNCHANGED << users_json, login_attempts, returned >>
    /\ UNCHANGED session_vars
    /\ UNCHANGED app_vars

\* the state initialize_session_state() leaves in a new browser session
initialize_session_state ==
    /\ authenticated = FALSE
    /\ username = None
    /\ user_role = None
    /\ login_time = NoTime
    /\ login_attempts = << >>
    /\ session_token = None
    /\ returned = Call("initialize_session_state", << >>, None)

\* the session in which the optimizer runs: the default administrator has
\* just logged in (the page is shown only while is_session_valid())
OperatorLoggedIn ==
    /\ now = 0
    /\ users_json = NoUsersFile
    /\ authenticated = TRUE
    /\ username = "aman"
    /\ user_role = DEFAULT_USERS["aman"].role
    /\ login_time = << 0 >>
    /\ login_attempts = << >>
    /\ session_token = "token_urlsafe"
    /\ returned = Call("authenticate_user", << "aman", "0506334625" >>, True)

----------------------------------------------------------------------------
(* The session: every widget event reruns the script once *)

\* the allocation blocks entered whatever the loading left
AnyTables(ords, quotes) == TRUE

\* the script reaches the allocation blocks only with both cleaned tables non-empty
DataLoaded(ords, quotes) == ords # << >> /\ quotes # << >>

\* if st.button("Run Optimization") or st.session_state.processing_complete:
RerunOptimization(clicked, ords, quotes) ==
    IF DataLoaded(ords, quotes) /\ (clicked \/ processing_complete)
    THEN RunOptimization(ords, quotes, argsort_ties)
    ELSE optimized_allocation

\* sorted(quotes_df['Supplier'].unique())
AllSuppliers(quotes) == {quotes[i].Supplier : i \in 1..Len(quotes)}

\* cell of the selection table: "N/A" unless the supplier quotes the part
CellIsQuote(part, supplier, quotes) ==
    \E i \in 1..Len(quotes) :
        quotes[i].PartNumber = part /\ quotes[i].Supplier = supplier

\* the map emptied at the start of every script run
ClearedSelections(sel) == << >>

\* if 'supplier_selections' not in st.session_state: ... = {}: the key is
\* there from the first run of the session on, later runs keep the map
KeptSelections(sel) == sel

\* the sort applied to the quote table itself
QuotesSortedInPlace(quotes, ties) == SortValues(quotes, ties)

\* the quote table after a consolidation run: the run sorts part_quotes, a
\* copy (.copy() with inplace=True, or the frame sort_values returns); the
\* table keeps its rows and their order
QuotesAfterRun(quotes, ties) == quotes

\* the script run with the files ofiles and qfiles in the uploaders, no
\* button clicked: loading, validation, and the optimization if it ran before
Rerun(ofiles, qfiles) ==
    \E data \in {LoadData(ofiles, qfiles)} :
        /\ order_file' = ofiles
        /\ quote_files' = qfiles
        /\ load_status' = data.status
        /\ orders' = data.orders
        /\ quotes_df' = data.quotes_df
        /\ supplier_selections' = KeptSelections(supplier_selections)
        /\ optimized_allocation' =
               RerunOptimization(FALSE, data.orders, data.quotes_df)
        /\ UNCHANGED auth_vars
        /\ UNCHANGED << processing_complete, final_allocation, argsort_ties,
                        final_runs >>

\* the operator puts a file into the order uploader, or removes it
UploadOrder(files) == Rerun(files, quote_files)

\* the operator puts files into the quote uploader, or removes them
UploadQuotes(files) == Rerun(order_file, files)

\* the run that processes the files just put into the uploaders
LoadFiles == Rerun(order_file, quote_files)

RunOptimizationClick ==
    /\ DataLoaded(orders, quotes_df)
    /\ optimized_allocation' = RerunOptimization(TRUE, orders, quotes_df)
    /\ processing_complete' = TRUE
    /\ quotes_df' = QuotesAfterRun(quotes_df, argsort_ties)
    /\ supplier_selections' = KeptSelections(supplier_selections)
    /\ UNCHANGED auth_vars
    /\ UNCHANGED << order_file, quote_files, load_status, orders,
                    final_allocation, argsort_ties, final_runs >>

\* a click on the cell (row_idx, col_name) of the selection table
SelectCell(row_idx, col_name) ==
    /\ DataLoaded(orders, quotes_df)
    /\ processing_complete
    /\ row_idx \in 1..Len(UniqueParts(orders))
    /\ col_name \in AllSuppliers(quotes_df)
    /\ LET part_number == UniqueParts(orders)[row_idx]
       IN  supplier_selections' =
               IF CellIsQuote(part_number, col_name, quotes_df)
               THEN [p \in DOMAIN KeptSelections(supplier_selections)
                             \cup {part_number} |->
                        IF p = part_number THEN col_name
                        ELSE KeptSelections(supplier_selections)[p]]
               ELSE KeptSelections(supplier_selections)
    /\ optimized_allocation' = RerunOptimization(FALSE, orders, quotes_df)
    /\ UNCHANGED auth_vars
    /\ UNCHANGED << order_file, quote_files, load_status, orders, quotes_df,
                    processing_complete, final_allocation, argsort_ties,
                    final_runs >>

ResetAllSelections ==
    /\ DataLoaded(orders, quotes_df)
    /\ processing_complete
    /\ DOMAIN supplier_selections # {}
    /\ supplier_selections' = << >>
    /\ optimized_allocation' = RerunOptimization(FALSE, orders, quotes_df)
    /\ UNCHANGED auth_vars
    /\ UNCHANGED << order_file, quote_files, load_status, orders, quotes_df,
                    processing_complete, final_allocation, argsort_ties,
                    final_runs >>

GenerateFinalClick ==
    /\ DataLoaded(orders, quotes_df)
    /\ final_runs < MaxFinalRuns
    /\ optimized_allocation' = RerunOptimization(FALSE, orders, quotes_df)
    /\ supplier_selections' = KeptSelections(supplier_selections)
    /\ final_allocation' = GenerateFinal(final_allocation, orders, quotes_df,
                                         supplier_selections', argsort_ties)
    /\ final_runs' = final_runs + 1
    /\ quotes_df' = QuotesAfterRun(quotes_df, argsort_ties)
    /\ UNCHANGED auth_vars
    /\ UNCHANGED << order_file, quote_files, load_status, orders,
                    processing_complete, argsort_ties >>

----------------------------------------------------------------------------
(* Spec: the session from its construction; uploads draw small files *)

Init ==
    /\ order_file = << >>
    /\ quote_files = << >>
    /\ load_status = "waiting"
    /\ orders = << >>
    /\ quotes_df = << >>
    /\ supplier_selections = << >>
    /\ processing_complete = FALSE
    /\ optimized_allocation = << >>
    /\ final_allocation = << >>
    /\ final_runs = 0
    /\ argsort_ties \in TieOrders
    /\ OperatorLoggedIn

Next ==
    \/ \E o \in OrderFiles : UploadOrder(o)
    \/ \E q \in QuoteFiles : UploadQuotes(q)
    \/ RunOptimizationClick
    \/ \E i \in 1..MaxOrders, c \in Suppliers : SelectCell(i, c)
    \/ ResetAllSelections
    \/ GenerateFinalClick

Spec == Init /\ [][Next]_vars

----------------------------------------------------------------------------
(* SpecLoad: the loading and validation of uploaded files, over files with  *)
(* other headers and with rows the cleaning drops                           *)

\* the files of an earlier, successful load
PriorOrderFile == << [columns |-> StdOrderColumns, rows |-> << ValidOrderRow >>] >>

PriorQuoteFiles ==
    << [name |-> << "SupA", "xlsx" >>, columns |-> StdQuoteColumns,
        rows |-> << ValidQuoteRow >>] >>

\* a new session: the second of the two uploaders has just received its
\* files, the run this starts has not read them yet
FreshUpload ==
    /\ order_file \in RawOrderFiles
    /\ quote_files \in RawQuoteFiles
    /\ load_status = "waiting"
    /\ orders = << >>
    /\ quotes_df = << >>
    /\ processing_complete = FALSE
    /\ optimized_allocation = << >>
    /\ final_allocation = << >>
    /\ final_runs = 0

\* a session that has loaded the prior files, run the optimization and
\* generated the final allocation: one uploader has just received other
\* files, the run this starts has not read them yet
LaterUpload ==
    /\ \/ order_file \in RawOrderFiles /\ quote_files = PriorQuoteFiles
       \/ order_file = PriorOrderFile /\ quote_files \in RawQuoteFiles
    /\ load_status = "ok"
    /\ orders = LoadData(PriorOrderFile, PriorQuoteFiles).orders
    /\ quotes_df = LoadData(PriorOrderFile, PriorQuoteFiles).quotes_df
    /\ processing_complete = TRUE
    /\ optimized_allocation = RunOptimization(orders, quotes_df, argsort_ties)
    /\ final_allocation = GenerateFinal(<< >>, orders, quotes_df, << >>, argsort_ties)
    /\ final_runs = 1

InitLoad ==
    /\ argsort_ties \in TieOrders
    /\ OperatorLoggedIn
    /\ supplier_selections = << >>
    /\ FreshUpload \/ LaterUpload

NextLoad == LoadFiles

SpecLoad == InitLoad /\ [][NextLoad]_vars

----------------------------------------------------------------------------
(* SpecAlloc: one loaded session per behaviour, over all tables within the  *)
(* bounds; the selections are any map left by earlier clicks and uploads.   *)

\* tables quoting several parts, against any order table
WideTables ==
    /\ orders \in SeqsUpTo(OrderRows, MaxOrders) \ {<< >>}
    /\ quotes_df \in SeqsUpTo(QuoteRows, MaxQuotes) \ {<< >>}

\* MaxPartQuotes quotes of one part, against an order of that part
DeepTables ==
    \E p \in Parts :
        /\ orders \in {<< r >> : r \in {o \in OrderRows : o.PartNumber = p}}
        /\ quotes_df \in [1..MaxPartQuotes -> {q \in QuoteRows : q.PartNumber = p}]

InitAlloc ==
    /\ WideTables \/ DeepTables
    /\ order_file = FileOfOrders(orders)
    /\ quote_files = FilesOfQuotes(quotes_df)
    /\ load_status = "ok"
    /\ argsort_ties \in TieOrders
    /\ processing_complete \in BOOLEAN
    /\ supplier_selections \in Selections
    /\ ~processing_complete => supplier_selections = << >>
    /\ optimized_allocation =
           IF processing_complete
           THEN RunOptimization(orders, quotes_df, argsort_ties) ELSE << >>
    /\ final_allocation = << >>
    /\ final_runs = 0
    /\ OperatorLoggedIn

NextAlloc ==
    \/ RunOptimizationClick
    \/ GenerateFinalClick

SpecAlloc == InitAlloc /\ [][NextAlloc]_vars

----------------------------------------------------------------------------
(* SpecLogin: logins, lockout and session expiry as time passes, against    *)
(* the default user store                                                   *)

\* the optimizer's own state while the login form is shown
AppIdle ==
    /\ order_file = << >>
    /\ quote_files = << >>
    /\ load_status = "waiting"
    /\ orders = << >>
    /\ quotes_df = << >>
    /\ supplier_selections = << >>
    /\ processing_complete = FALSE
    /\ optimized_allocation = << >>
    /\ final_allocation = << >>
    /\ final_runs = 0
    /\ argsort_ties = "input"

\* the names and passwords typed into the login form
LoginNames == {"aman", "bob"}

Passwords == {"0506334625", "letmein"}

InitLogin ==
    /\ AppIdle
    /\ now = 0
    /\ users_json = NoUsersFile
    /\ initialize_session_state

NextLogin ==
    \/ Tick
    \/ \E user \in LoginNames, password \in Passwords : authenticate_user(user, password)
    \/ is_session_valid
    \/ refresh_session
    \/ logout_user

SpecLogin == InitLogin /\ [][NextLogin]_vars

----------------------------------------------------------------------------
(* SpecUsers: user management by the sessions of administrators and of      *)
(* other users, starting from the default user store                        *)

UserNames == {"aman", "admin"}

Roles == {"user", "admin"}

InitUsers ==
    /\ AppIdle
    /\ now = 0
    /\ users_json = NoUsersFile
    /\ initialize_session_state

NextUsers ==
    \/ \E user \in UserNames, password \in Passwords : authenticate_user(user, password)
    \/ logout_user
    \/ \E user \in UserNames, password \in Passwords, role \in Roles :
           create_new_user(user, password, role)
    \/ \E user \in UserNames : delete_user(user)
    \/ \E user \in UserNames, password \in Passwords :
           update_user_password(user, password)
    \/ \E user \in UserNames, role \in Roles : update_user_role(user, role)

SpecUsers == InitUsers /\ [][NextUsers]_vars

----------------------------------------------------------------------------
(* Vocabulary of the properties *)

OrderedParts == {orders[i].PartNumber : i \in 1..Len(orders)}

OrderRowsOf(p) == {i \in 1..Len(orders) : orders[i].PartNumber = p}

\* the quantity of the first order row of part p
RequiredQty(p) ==
    orders[CHOOSE i \in OrderRowsOf(p) : \A j \in OrderRowsOf(p) : i <= j].QtyRequired

QuoteIdx(p) == {i \in 1..Len(quotes_df) : quotes_df[i].PartNumber = p}

QuoteIdxOf(p, s) == {i \in QuoteIdx(p) : quotes_df[i].Supplier = s}

\* the first quote row of supplier s for part p
FirstQuote(p, s) ==
    quotes_df[CHOOSE i \in QuoteIdxOf(p, s) : \A j \in QuoteIdxOf(p, s) : i <= j]

HasQuote(p) == QuoteIdx(p) # {}

Pinned(p) == p \in DOMAIN supplier_selections

PinQuoted(p) == Pinned(p) /\ QuoteIdxOf(p, supplier_selections[p]) # {}

CaseUnpinned(p) == p \in OrderedParts /\ HasQuote(p) /\ ~Pinned(p)

CaseFullPin(p) ==
    /\ p \in OrderedParts
    /\ PinQuoted(p)
    /\ FirstQuote(p, supplier_selections[p]).AvailableQty >= RequiredQty(p)

CasePartialPin(p) ==
    /\ p \in OrderedParts
    /\ PinQuoted(p)
    /\ FirstQuote(p, supplier_selections[p]).AvailableQty < RequiredQty(p)

CaseMissingPin(p) ==
    p \in OrderedParts /\ Pinned(p) /\ HasQuote(p) /\ ~PinQuoted(p)

\* a Generate Final Allocation run has stored its list
FinalDone == final_runs > 0

LinesOf(alloc, p) == SelectSeq(alloc, LAMBDA l : l.PartNumber = p)

FinalLines(p) == LinesOf(final_allocation, p)

OptLines(p) == LinesOf(optimized_allocation, p)

IsFinalShortage(l) == l.Supplier = "N/A (SHORTAGE)" \/ l.AllocationSource = "Shortage"

IsOptShortage(l) == l.Supplier = "SHORTAGE" \/ l.Status = "Shortage"

FinalSupplierLines(p) == SelectSeq(FinalLines(p), LAMBDA l : l.Supplier \in Suppliers)

OptSupplierLines(p) == SelectSeq(OptLines(p), LAMBDA l : l.Supplier \in Suppliers)

RECURSIVE SumOver(_, _)
SumOver(f, S) ==
    IF S = {} THEN 0
    ELSE LET x == CHOOSE y \in S : TRUE IN f[x] + SumOver(f, S \ {x})

SumQtyAllocated(ls) == SumOver([k \in 1..Len(ls) |-> ls[k].QtyAllocated], 1..Len(ls))

SumAllocatedQty(ls) == SumOver([k \in 1..Len(ls) |-> ls[k].AllocatedQty], 1..Len(ls))

SumTotalCost(ls) == SumOver([k \in 1..Len(ls) |-> ls[k].TotalCost], 1..Len(ls))

SumTotal(ls) == SumOver([k \in 1..Len(ls) |-> ls[k].Total], 1..Len(ls))

\* the assignments of quantity `total` to the quote rows I, each within its availability
Assignments(I, total) ==
    {a \in [I -> 0..MaxAvail] :
        /\ \A i \in I : a[i] <= quotes_df[i].AvailableQty
        /\ SumOver(a, I) = total}

AssignmentCost(a, I) == SumOver([i \in I |-> a[i] * quotes_df[i].UnitPrice], I)

TotalAvailable(I) == SumOver([i \in I |-> quotes_df[i].AvailableQty], I)

----------------------------------------------------------------------------
(* C1 - Conservation.  After Generate Final Allocation, for every ordered   *)
(* part with at least one quote, the quantities of the part's lines        *)
(* (supplier lines and shortage line) add up to the part's QtyRequired,     *)
(* and the part has exactly one Shortage line if its supplier lines cover   *)
(* less than QtyRequired and none otherwise; whether the part is unpinned,  *)
(* fully pinned, partially pinned or pinned to a supplier without a quote.  *)
C1_Conservation ==
    FinalDone =>
        \A p \in OrderedParts :
            HasQuote(p) =>
                LET ls == FinalLines(p)
                    short == SelectSeq(ls, IsFinalShortage)
                IN  /\ SumQtyAllocated(ls) = RequiredQty(p)
                    /\ Len(short) =
                           IF SumQtyAllocated(FinalSupplierLines(p)) < RequiredQty(p)
                           THEN 1 ELSE 0

\* a final allocation with a partially pinned part that ends in a shortage and a
\* part whose pin has no quote
C1_Witness ==
    /\ FinalDone
    /\ \E p \in Parts :
           /\ CasePartialPin(p)
           /\ \E k \in 1..Len(FinalLines(p)) : IsFinalShortage(FinalLines(p)[k])
    /\ \E p \in Parts : CaseMissingPin(p)

----------------------------------------------------------------------------
(* C2 - No-offer closure.  An ordered part with no quote produces exactly   *)
(* one line, supplier NOT AVAILABLE, source Not Available, quantity 0, and  *)
(* no Shortage line, in the Run Optimization allocation (parts ordered in   *)
(* one row) and in the final allocation, pinned or not.                     *)
C2_NoOfferClosure ==
    /\ processing_complete =>
           \A p \in OrderedParts :
               (~HasQuote(p) /\ Cardinality(OrderRowsOf(p)) = 1) =>
                   /\ Len(OptLines(p)) = 1
                   /\ OptLines(p)[1].Supplier = "NOT AVAILABLE"
                   /\ OptLines(p)[1].Status = "Not Available"
                   /\ OptLines(p)[1].AllocatedQty = 0
    /\ FinalDone =>
           \A p \in OrderedParts :
               ~HasQuote(p) =>
                   /\ Len(FinalLines(p)) = 1
                   /\ FinalLines(p)[1].Supplier = "NOT AVAILABLE"
                   /\ FinalLines(p)[1].AllocationSource = "Not Available"
                   /\ FinalLines(p)[1].QtyAllocated = 0

----------------------------------------------------------------------------
(* C3 - Missing-pin fallback.  When Generate Final Allocation runs and a    *)
(* part is pinned to a supplier that has no quote for it, the part's lines  *)
(* are those the run produces for the part with the pin removed.            *)
WithoutPin(p) ==
    [x \in DOMAIN supplier_selections \ {p} |-> supplier_selections[x]]

C3_MissingPinFallback ==
    [][final_runs' # final_runs =>
          \A p \in OrderedParts :
              CaseMissingPin(p) =>
                  LinesOf(final_allocation', p) =
                      FinalPart(p, orders, quotes_df, WithoutPin(p), argsort_ties)]_vars

----------------------------------------------------------------------------
(* C4 - Cost minimality (unpinned).  For an unpinned part the supplier      *)
(* lines cover min(QtyRequired, total availability) and cost no more than   *)
(* any assignment of that quantity to the part's quotes that gives each     *)
(* quote at most its availableQty; in the final allocation and in the Run   *)
(* Optimization allocation (parts ordered in one row).                      *)
Covered(p) == Min(RequiredQty(p), TotalAvailable(QuoteIdx(p)))

C4_CostMinimality ==
    /\ FinalDone =>
           \A p \in OrderedParts :
               CaseUnpinned(p) =>
                   /\ SumQtyAllocated(FinalSupplierLines(p)) = Covered(p)
                   /\ \A a \in Assignments(QuoteIdx(p), Covered(p)) :
                          SumTotalCost(FinalSupplierLines(p))
                              <= AssignmentCost(a, QuoteIdx(p))
    /\ processing_complete =>
           \A p \in OrderedParts :
               (HasQuote(p) /\ Cardinality(OrderRowsOf(p)) = 1) =>
                   /\ SumAllocatedQty(OptSupplierLines(p)) = Covered(p)
                   /\ \A a \in Assignments(QuoteIdx(p), Covered(p)) :
                          SumTotal(OptSupplierLines(p)) <= AssignmentCost(a, QuoteIdx(p))

\* an unpinned part whose first quote is dearer than a later one, with less
\* ordered than the quotes offer: the input order is not the cheapest
C4_Witness ==
    /\ FinalDone
    /\ processing_complete
    /\ \E p \in Parts :
           /\ CaseUnpinned(p)
           /\ RequiredQty(p) < TotalAvailable(QuoteIdx(p))
           /\ \E i, j \in QuoteIdx(p) :
                  i < j /\ quotes_df[i].UnitPrice > quotes_df[j].UnitPrice

----------------------------------------------------------------------------
(* C5 - Pin precedence.  If a part is pinned and the pinned supplier's      *)
(* (first) quote offers at least QtyRequired, the part's final allocation   *)
(* is exactly one line: the pinned supplier, QtyRequired, at its unit       *)
(* price, source Manual Selection.                                          *)
C5_PinPrecedence ==
    FinalDone =>
        \A p \in OrderedParts :
            CaseFullPin(p) =>
                LET q == FirstQuote(p, supplier_selections[p])
                IN  FinalLines(p) =
                        << [PartNumber |-> p,
                            Supplier |-> supplier_selections[p],
                            QtyAllocated |-> RequiredQty(p),
                            UnitPrice |-> q.UnitPrice,
                            TotalCost |-> RequiredQty(p) * q.UnitPrice,
                            AllocationSource |-> "Manual Selection"] >>

\* a fully pinned part for which another supplier quotes a lower price
C5_Witness ==
    /\ FinalDone
    /\ \E p \in Parts :
           /\ CaseFullPin(p)
           /\ \E i \in QuoteIdx(p) :
                  /\ quotes_df[i].Supplier # supplier_selections[p]
                  /\ quotes_df[i].UnitPrice
                         < FirstQuote(p, supplier_selections[p]).UnitPrice

----------------------------------------------------------------------------
(* C6 - Partial pin.  If a part is pinned and the pinned supplier's (first) *)
(* quote offers less than QtyRequired, the part's first line gives the      *)
(* pinned supplier its full availableQty with source Manual Selection       *)
(* (Partial); the lines that follow, up to the shortage line, are labelled  *)
(* Auto-Optimized (Remaining), name other suppliers only, are in ascending  *)
(* price order, cover min(remaining, availability of the others) and cost   *)
(* no more than any other assignment of that quantity to the others' quotes.*)
OtherIdx(p) == {i \in QuoteIdx(p) : quotes_df[i].Supplier # supplier_selections[p]}

RemainingLines(p) ==
    SelectSeq(Tail(FinalLines(p)), LAMBDA l : ~IsFinalShortage(l))

C6_PartialPin ==
    FinalDone =>
        \A p \in OrderedParts :
            CasePartialPin(p) =>
                LET q == FirstQuote(p, supplier_selections[p])
                    rest == RemainingLines(p)
                    remaining == RequiredQty(p) - q.AvailableQty
                    covered == Min(remaining, TotalAvailable(OtherIdx(p)))
                IN  /\ FinalLines(p)[1] =
                           [PartNumber |-> p,
                            Supplier |-> supplier_selections[p],
                            QtyAllocated |-> q.AvailableQty,
                            UnitPrice |-> q.UnitPrice,
                            TotalCost |-> q.AvailableQty * q.UnitPrice,
                            AllocationSource |-> "Manual Selection (Partial)"]
                    /\ \A k \in 1..Len(rest) :
                           /\ rest[k].AllocationSource = "Auto-Optimized (Remaining)"
                           /\ rest[k].Supplier # supplier_selections[p]
                           /\ \E i \in OtherIdx(p) :
                                  /\ quotes_df[i].Supplier = rest[k].Supplier
                                  /\ quotes_df[i].UnitPrice = rest[k].UnitPrice
                                  /\ rest[k].QtyAllocated \in 1..quotes_df[i].AvailableQty
                           /\ rest[k].TotalCost = rest[k].QtyAllocated * rest[k].UnitPrice
                    /\ \A k \in 1..(Len(rest) - 1) :
                           rest[k].UnitPrice <= rest[k + 1].UnitPrice
                    /\ SumQtyAllocated(rest) = covered
                    /\ \A a \in Assignments(OtherIdx(p), covered) :
                           SumTotalCost(rest) <= AssignmentCost(a, OtherIdx(p))

\* a partially pinned part whose remainder is taken from two quotes of different
\* price, the dearer one first in the table
C6_Witness ==
    /\ FinalDone
    /\ \E p \in Parts :
           /\ CasePartialPin(p)
           /\ Len(RemainingLines(p)) = 2
           /\ RemainingLines(p)[1].UnitPrice < RemainingLines(p)[2].UnitPrice
           /\ \E i, j \in OtherIdx(p) :
                  i < j /\ quotes_df[i].UnitPrice > quotes_df[j].UnitPrice

----------------------------------------------------------------------------
(* C7 - Shortage line shape.  With `left` the ordered quantity minus the    *)
(* quantity of the part's supplier lines: if left > 0 the part has exactly  *)
(* one shortage line, it is the part's last line, its supplier is the       *)
(* shortage sentinel (N/A (SHORTAGE) in the final allocation, SHORTAGE in   *)
(* the optimization run), its quantity is left, unit price and total cost   *)
(* are 0, source Shortage; if left = 0 the part has no shortage line.  For  *)
(* the optimization run: parts with a quote, ordered in one row.            *)
C7_ShortageShape ==
    /\ FinalDone =>
           \A p \in OrderedParts :
               LET ls == FinalLines(p)
                   left == RequiredQty(p) - SumQtyAllocated(FinalSupplierLines(p))
                   short == SelectSeq(ls, IsFinalShortage)
               IN  IF left > 0
                   THEN /\ Len(short) = 1
                        /\ ls[Len(ls)] =
                               [PartNumber |-> p, Supplier |-> "N/A (SHORTAGE)",
                                QtyAllocated |-> left, UnitPrice |-> 0,
                                TotalCost |-> 0, AllocationSource |-> "Shortage"]
                   ELSE Len(short) = 0
    /\ processing_complete =>
           \A p \in OrderedParts :
               (HasQuote(p) /\ Cardinality(OrderRowsOf(p)) = 1) =>
                   LET ls == OptLines(p)
                       left == RequiredQty(p) - SumAllocatedQty(OptSupplierLines(p))
                       short == SelectSeq(ls, IsOptShortage)
                   IN  IF left > 0
                       THEN /\ Len(short) = 1
                            /\ ls[Len(ls)].Supplier = "SHORTAGE"
                            /\ ls[Len(ls)].AllocatedQty = left
                            /\ ls[Len(ls)].UnitPrice = 0
                            /\ ls[Len(ls)].Total = 0
                            /\ ls[Len(ls)].Status = "Shortage"
                       ELSE Len(short) = 0

\* both runs done, with a part that is short after a supplier line and a part
\* that is fully covered
C7_Witness ==
    /\ FinalDone
    /\ processing_complete
    /\ \E p \in Parts :
           /\ p \in OrderedParts
           /\ Cardinality(OrderRowsOf(p)) = 1
           /\ Len(FinalSupplierLines(p)) >= 1
           /\ Len(OptSupplierLines(p)) >= 1
           /\ SumQtyAllocated(FinalSupplierLines(p)) < RequiredQty(p)
    /\ \E p \in Parts :
           /\ p \in OrderedParts
           /\ SumQtyAllocated(FinalSupplierLines(p)) = RequiredQty(p)

----------------------------------------------------------------------------
(* C8 - Tie-break determinism.  When two suppliers quote a part once each   *)
(* at the same unit price, the one later in the quote table gets a line     *)
(* only if the earlier one has been allocated its full availableQty; in     *)
(* the optimization run (parts ordered in one row), the unpinned final path *)
(* and the remaining-quantity path of a partial pin.                        *)
TiedPairs(p) ==
    {ij \in QuoteIdx(p) \X QuoteIdx(p) :
        /\ ij[1] < ij[2]
        /\ quotes_df[ij[1]].UnitPrice = quotes_df[ij[2]].UnitPrice
        /\ quotes_df[ij[1]].Supplier # quotes_df[ij[2]].Supplier
        /\ Cardinality(QuoteIdxOf(p, quotes_df[ij[1]].Supplier)) = 1
        /\ Cardinality(QuoteIdxOf(p, quotes_df[ij[2]].Supplier)) = 1}

\* in the lines ls the later quote of the pair is used only after the earlier is used up
InInputOrder(ls, qtyOf(_), ij) ==
    (\E k \in 1..Len(ls) : ls[k].Supplier = quotes_df[ij[2]].Supplier) =>
        (\E k \in 1..Len(ls) :
            /\ ls[k].Supplier = quotes_df[ij[1]].Supplier
            /\ qtyOf(ls[k]) = quotes_df[ij[1]].AvailableQty)

C8_TieBreakStable ==
    FinalDone =>
        /\ \A p \in OrderedParts :
               \A ij \in TiedPairs(p) :
                   \/ /\ ~Pinned(p)
                      /\ InInputOrder(FinalSupplierLines(p),
                                      LAMBDA l : l.QtyAllocated, ij)
                   \/ /\ CasePartialPin(p)
                      /\ quotes_df[ij[1]].Supplier # supplier_selections[p]
                      /\ quotes_df[ij[2]].Supplier # supplier_selections[p]
                      /\ InInputOrder(RemainingLines(p),
                                      LAMBDA l : l.QtyAllocated, ij)
                   \/ /\ Pinned(p)
                      /\ \/ ~CasePartialPin(p)
                         \/ supplier_selections[p] \in
                                {quotes_df[ij[1]].Supplier, quotes_df[ij[2]].Supplier}
        /\ processing_complete =>
               \A p \in OrderedParts :
                   Cardinality(OrderRowsOf(p)) = 1 =>
                       \A ij \in TiedPairs(p) :
                           InInputOrder(OptSupplierLines(p),
                                        LAMBDA l : l.AllocatedQty, ij)

----------------------------------------------------------------------------
(* C9 - Idempotence.  In a session whose orders, quotes and selections stay *)
(* as they are, a further Generate Final Allocation run stores the same     *)
(* list, line for line, as the run before it.                               *)
C9_Idempotence ==
    [][(FinalDone /\ final_runs' # final_runs
           /\ orders' = orders /\ quotes_df' = quotes_df
           /\ supplier_selections' = supplier_selections)
          => final_allocation' = final_allocation]_vars

\* a second run has stored a list of several lines that includes a pinned part
C9_Witness ==
    /\ final_runs >= 2
    /\ Len(final_allocation) >= 3
    /\ \E p \in Parts : CasePartialPin(p)

----------------------------------------------------------------------------
(* C10 - Duplicate offers.  When the quote table holds several rows for one *)
(* (part, supplier) pair only the first is used: the part's final lines     *)
(* name each supplier at most once, with a quantity of at most the first    *)
(* row's availableQty.                                                      *)
C10_FirstDuplicateOnly ==
    FinalDone =>
        \A p \in OrderedParts :
            \A s \in Suppliers :
                LET ls == SelectSeq(FinalLines(p), LAMBDA l : l.Supplier = s)
                IN  /\ Len(ls) <= 1
                    /\ Len(ls) = 1 =>
                           ls[1].QtyAllocated <= FirstQuote(p, s).AvailableQty

----------------------------------------------------------------------------
(* C11 - Output ordering.  The final allocation list is part-major in the   *)
(* order table's order of parts: every ordered part has lines, the lines of *)
(* a part are contiguous and the parts follow each other in the order of    *)
(* their first rows in the order table; within a part a Manual Selection    *)
(* or Manual Selection (Partial) line is the first line, the auto-allocated *)
(* lines are in ascending price order, and the shortage line is the last.   *)
FirstOrderRow(p) == CHOOSE i \in OrderRowsOf(p) : \A j \in OrderRowsOf(p) : i <= j

IsManualLine(l) ==
    l.AllocationSource \in {"Manual Selection", "Manual Selection (Partial)"}

IsAutoLine(l) ==
    l.AllocationSource \in {"Auto-Optimized", "Auto-Optimized (Remaining)"}

C11_OutputOrdering ==
    FinalDone =>
        LET fa == final_allocation
        IN  /\ \A p \in OrderedParts : FinalLines(p) # << >>
            /\ \A k \in 1..Len(fa) : fa[k].PartNumber \in OrderedParts
            /\ \A k, l \in 1..Len(fa) :
                   (k < l /\ fa[k].PartNumber # fa[l].PartNumber) =>
                       FirstOrderRow(fa[k].PartNumber) < FirstOrderRow(fa[l].PartNumber)
            /\ \A k, m, l \in 1..Len(fa) :
                   (k < m /\ m < l /\ fa[k].PartNumber = fa[l].PartNumber) =>
                       fa[m].PartNumber = fa[k].PartNumber
            /\ \A p \in OrderedParts :
                   LET ls == FinalLines(p)
                   IN  /\ \A k \in 1..Len(ls) :
                              /\ IsManualLine(ls[k]) => k = 1
                              /\ IsFinalShortage(ls[k]) => k = Len(ls)
                              /\ IsManualLine(ls[k]) \/ IsAutoLine(ls[k])
                                     \/ IsFinalShortage(ls[k])
                       /\ \A k, l \in 1..Len(ls) :
                              (k < l /\ IsAutoLine(ls[k]) /\ IsAutoLine(ls[l])) =>
                                  ls[k].UnitPrice <= ls[l].UnitPrice

\* two parts ordered in an order that is not the alphabetical one, one of them
\* with a pinned line, an auto-allocated line and a shortage line
C11_Witness ==
    /\ FinalDone
    /\ Len(orders) = 2
    /\ orders[1].PartNumber = "P2"
    /\ orders[2].PartNumber = "P1"
    /\ \E p \in Parts :
           /\ Len(FinalLines(p)) = 3
           /\ IsManualLine(FinalLines(p)[1])
           /\ IsAutoLine(FinalLines(p)[2])
           /\ IsFinalShortage(FinalLines(p)[3])

----------------------------------------------------------------------------
(* C12 - Frame of a consolidation run.  A Run Optimization or Generate      *)
(* Final Allocation run leaves the supplier_selections map, the order       *)
(* table and the quote table as they were, rows and row order included,     *)
(* and the list a Generate Final Allocation run stores is, part by part,    *)
(* the one computed from the map as it was when the run began.              *)
C12_RunsReadOnly ==
    [][/\ supplier_selections' = supplier_selections
       /\ orders' = orders
       /\ quotes_df' = quotes_df
       /\ final_runs' # final_runs =>
              \A p \in OrderedParts :
                  LinesOf(final_allocation', p) =
                      FinalPart(p, orders, quotes_df, supplier_selections,
                                argsort_ties)]_vars

\* both runs done over a quote table that is not in price order, with a pin
C12_Witness ==
    /\ FinalDone
    /\ processing_complete
    /\ supplier_selections # << >>
    /\ \E i, j \in 1..Len(quotes_df) :
           /\ i < j
           /\ quotes_df[i].PartNumber = quotes_df[j].PartNumber
           /\ quotes_df[i].UnitPrice > quotes_df[j].UnitPrice

----------------------------------------------------------------------------
(* C13 - Validation failure halts the run.  When the script runs on         *)
(* uploaded files and a required column is missing from the order file or   *)
(* from the quote files, or no order row or no quote row passes the         *)
(* filter, the run ends with an error (st.stop() or the error handler), no  *)
(* table reaches the allocation blocks, and optimized_allocation and        *)
(* final_allocation stay as they were before the run.                       *)
FilesUploaded == order_file # << >> /\ quote_files # << >>

OrderColumnMissing ==
    MissingColumns(OrderHeaders(order_file[1]), required_order_cols) # {}

QuoteColumnMissing ==
    MissingColumns(ConcatHeaders(quote_files), required_quote_cols) # {}

IsPositive(c) == c.kind = "number" /\ c.val > 0

\* an order row passes the filter: part number present, quantity positive
OrderRowPasses(r) == r.PartNumber # NaN /\ IsPositive(r.QtyRequired)

\* a quote row passes the filter: price and availability positive
QuoteRowPasses(r) == IsPositive(r.UnitPrice) /\ IsPositive(r.AvailableQty)

NoOrderRowPasses ==
    \A k \in 1..Len(order_file[1].rows) : ~OrderRowPasses(order_file[1].rows[k])

NoQuoteRowPasses ==
    \A i \in 1..Len(quote_files) :
        \A k \in 1..Len(quote_files[i].rows) :
            ~QuoteRowPasses(quote_files[i].rows[k])

ValidationFails ==
    /\ FilesUploaded
    /\ \/ OrderColumnMissing
       \/ QuoteColumnMissing
       \/ NoOrderRowPasses
       \/ NoQuoteRowPasses

RunFailed == load_status \in {"stopped", "exception"}

C13_ValidationHalts ==
    [][ValidationFails =>
          /\ RunFailed'
          /\ orders' = << >>
          /\ quotes_df' = << >>
          /\ optimized_allocation' = optimized_allocation
          /\ final_allocation' = final_allocation]_vars

\* a session with stored allocations whose run has stopped on an order file
\* without the quantity column
C13_Witness ==
    /\ RunFailed
    /\ FilesUploaded
    /\ OrderColumnMissing
    /\ optimized_allocation # << >>
    /\ final_allocation # << >>

----------------------------------------------------------------------------
(* C14 - Record normalization.  After a successful load every order row    *)
(* has a part number and QtyRequired > 0, and every quote row has a part   *)
(* number, UnitPrice > 0 and AvailableQty > 0; a quantity or price that is *)
(* not a number raises no exception (the run fails with an exception only  *)
(* for a missing quote column or a second Supplier column).                *)
C14_InvalidRowsDropped ==
    /\ load_status = "ok" =>
           /\ \A k \in 1..Len(orders) :
                  orders[k].PartNumber # NaN /\ orders[k].QtyRequired > 0
           /\ \A k \in 1..Len(quotes_df) :
                  /\ quotes_df[k].PartNumber # NaN
                  /\ quotes_df[k].UnitPrice > 0
                  /\ quotes_df[k].AvailableQty > 0
    /\ load_status = "exception" =>
           \/ QuoteColumnMissing
           \/ ColumnCount(ConcatHeaders(quote_files), "Supplier") > 1

----------------------------------------------------------------------------
(* C15 - Supplier is the file name.  Whatever supplier column the uploaded *)
(* quote files have inside (none, or one under Supplier, supplier, Vendor  *)
(* or Company), the normalized quote table has exactly one Supplier        *)
(* column, the run does not fail for it, and after a successful load the   *)
(* Supplier of every row of the quote table is the name (up to the first   *)
(* dot) of the file the row was uploaded in.                               *)
\* the names of the files whose rows a row of the loaded quote table can be:
\* those that hold a row with its part number that passes the filter
FilesOfRow(r) ==
    {quote_files[i].name[1] :
        i \in {j \in 1..Len(quote_files) :
                  \E k \in 1..Len(quote_files[j].rows) :
                      /\ QuoteRowPasses(quote_files[j].rows[k])
                      /\ quote_files[j].rows[k].PartNumber = r.PartNumber}}

SupplierFromFileName ==
    /\ ColumnCount(ConcatHeaders(quote_files), "Supplier") = 1
    /\ (load_status = "exception") => QuoteColumnMissing
    /\ load_status = "ok" =>
           \A k \in 1..Len(quotes_df) :
               /\ quotes_df[k].Supplier \in FilesOfRow(quotes_df[k])
               /\ quotes_df[k].Supplier # InFileSupplier

C15_SupplierIsFileName == [][FilesUploaded => SupplierFromFileName']_vars


----------------------------------------------------------------------------
(* C16 - Availability cap.  The supplier lines of a part can be matched one *)
(* to one with quote rows of the part (same supplier, same price) so that   *)
(* each line's quantity is the smaller of the quantity still open before    *)
(* it and the availableQty of its row; every supplier line has a quantity   *)
(* > 0, and the supplier lines of a part add up to at most QtyRequired; in  *)
(* the final allocation, and in the Run Optimization allocation for parts   *)
(* ordered in one row.                                                      *)
\* the one-to-one matchings of the lines ls of part p with quote rows of p
DrawnFrom(p, ls) ==
    {f \in [1..Len(ls) -> QuoteIdx(p)] :
        /\ \A k, l \in 1..Len(ls) : k # l => f[k] # f[l]
        /\ \A k \in 1..Len(ls) :
               /\ quotes_df[f[k]].Supplier = ls[k].Supplier
               /\ quotes_df[f[k]].UnitPrice = ls[k].UnitPrice}

\* quantities qty[1..n] are each the smaller of what is open and what row f[k] offers
CappedWalk(p, qty, f) ==
    \A k \in 1..Len(qty) :
        LET open == RequiredQty(p) - SumOver(qty, 1..(k - 1))
            avail == quotes_df[f[k]].AvailableQty
        IN  /\ qty[k] = (IF open <= avail THEN open ELSE avail)
            /\ qty[k] > 0
            /\ qty[k] <= avail

C16_AvailabilityCap ==
    /\ FinalDone =>
           \A p \in OrderedParts :
               LET ls == FinalSupplierLines(p)
                   qty == [k \in 1..Len(ls) |-> ls[k].QtyAllocated]
               IN  /\ \E f \in DrawnFrom(p, ls) : CappedWalk(p, qty, f)
                   /\ SumQtyAllocated(ls) <= RequiredQty(p)
    /\ processing_complete =>
           \A p \in OrderedParts :
               Cardinality(OrderRowsOf(p)) = 1 =>
                   LET ls == OptSupplierLines(p)
                       qty == [k \in 1..Len(ls) |-> ls[k].AllocatedQty]
                   IN  /\ \E f \in DrawnFrom(p, ls) : CappedWalk(p, qty, f)
                       /\ SumAllocatedQty(ls) <= RequiredQty(p)

\* both runs done; a part has two supplier lines, the first takes all its
\* quote offers, the second less than its quote offers
C16_Witness ==
    /\ FinalDone
    /\ processing_complete
    /\ \E p \in Parts :
           /\ p \in OrderedParts
           /\ Cardinality(OrderRowsOf(p)) = 1
           /\ Len(OptSupplierLines(p)) = 2
           /\ LET ls == FinalSupplierLines(p)
              IN  /\ Len(ls) = 2
                  /\ \E i, j \in QuoteIdx(p) :
                         /\ i # j
                         /\ quotes_df[i].Supplier = ls[1].Supplier
                         /\ quotes_df[i].AvailableQty = ls[1].QtyAllocated
                         /\ quotes_df[j].Supplier = ls[2].Supplier
                         /\ quotes_df[j].Supplier # ls[1].Supplier
                         /\ quotes_df[j].AvailableQty > ls[2].QtyAllocated

----------------------------------------------------------------------------
(* C17 - Pins persist, lists are replaced.  In a session, a step that is    *)
(* not Reset All Selections keeps every pin (a click on a cell may give one *)
(* part another supplier), and a consolidation run or an upload keeps the   *)
(* whole map;                                                               *)
(* the list a Generate Final Allocation run stores holds exactly the lines  *)
(* this run produces, part by part, and nothing of the list stored before.  *)
IsConsolidationRun ==
    final_runs' # final_runs \/ processing_complete' # processing_complete

RECURSIVE FreshLength(_)
FreshLength(ps) ==
    IF ps = {} THEN 0
    ELSE LET p == CHOOSE x \in ps : TRUE
         IN  Len(FinalPart(p, orders, quotes_df, supplier_selections, argsort_ties))
                 + FreshLength(ps \ {p})

C17_PinsPersistListsReplaced ==
    [][/\ \/ supplier_selections' = << >> /\ supplier_selections # << >>
          \/ /\ DOMAIN supplier_selections \subseteq DOMAIN supplier_selections'
             /\ Cardinality({p \in DOMAIN supplier_selections :
                                supplier_selections'[p] # supplier_selections[p]}) <= 1
       /\ IsConsolidationRun => supplier_selections' = supplier_selections
       /\ (order_file' # order_file \/ quote_files' # quote_files) =>
              supplier_selections' = supplier_selections
       /\ final_runs' # final_runs =>
              /\ \A p \in OrderedParts :
                     LinesOf(final_allocation', p) =
                         FinalPart(p, orders, quotes_df, supplier_selections,
                                   argsort_ties)
              /\ \A k \in 1..Len(final_allocation') :
                     final_allocation'[k].PartNumber \in OrderedParts
              /\ Len(final_allocation') = FreshLength(OrderedParts)]_vars

\* a second run has replaced the list of the first while two pins are set
C17_Witness ==
    /\ final_runs >= 2
    /\ final_allocation # << >>
    /\ Cardinality(DOMAIN supplier_selections) = 2

----------------------------------------------------------------------------
(* C18 - Pin commands.  Whenever the selection table is shown, the operator *)
(* can, in one step, clear the pin of any single pinned part and leave the  *)
(* other pins as they are, and can clear all pins; and a step that sets a   *)
(* pin for a part changes that part's entry only.                           *)
TableShown == DataLoaded(orders, quotes_df) /\ processing_complete

CanClearPin(p) == ENABLED <<Next /\ supplier_selections' = WithoutPin(p)>>_vars

CanClearAll == ENABLED <<Next /\ supplier_selections' = << >> >>_vars

PinCommandsOffered ==
    TableShown =>
        /\ \A p \in DOMAIN supplier_selections : CanClearPin(p)
        /\ supplier_selections # << >> => CanClearAll

SetPinChangesOnePart ==
    \A p \in Parts :
        (p \in DOMAIN supplier_selections'
            /\ (p \notin DOMAIN supplier_selections
                   \/ supplier_selections'[p] # supplier_selections[p])) =>
            /\ DOMAIN supplier_selections' = DOMAIN supplier_selections \cup {p}
            /\ \A q \in DOMAIN supplier_selections \ {p} :
                   supplier_selections'[q] = supplier_selections[q]

C18_PinCommands == []PinCommandsOffered /\ [][SetPinChangesOnePart]_vars


----------------------------------------------------------------------------
(* C19 *)

\* the supplier values that stand for a status instead of a supplier
SentinelSuppliers == {"NOT AVAILABLE", "SHORTAGE", "N/A (SHORTAGE)"}

IsSentinelLine(l) == l.Supplier \in SentinelSuppliers

\* the lines of the final allocation that name a supplier to order from
RealSupplierLines == SelectSeq(final_allocation, LAMBDA l : ~IsSentinelLine(l))

\* C19: lines whose supplier is NOT AVAILABLE, SHORTAGE or N/A (SHORTAGE) are
\* in no real-supplier grouping: no sentinel has a section (with subtotal) of
\* the Suppliers sheet or an entry with downloads under Orders by Supplier,
\* the sections and the order files together hold exactly the lines of real
\* suppliers, and the grand total adds up the quantity and the cost of those
\* lines only.
C19_SentinelsExcluded ==
    FinalDone =>
        LET sheet  == create_combined_suppliers_sheet(final_allocation, quotes_df, orders)
            groups == OrdersBySupplier(final_allocation)
        IN  /\ \A s \in SentinelSuppliers :
                   s \notin DOMAIN sheet.sections /\ s \notin DOMAIN groups
            /\ SumOver([s \in DOMAIN sheet.sections |-> Len(sheet.sections[s].rows)],
                       DOMAIN sheet.sections) = Len(RealSupplierLines)
            /\ SumOver([s \in DOMAIN groups |-> Len(groups[s].Download)],
                       DOMAIN groups) = Len(RealSupplierLines)
            /\ SumOver([s \in DOMAIN sheet.sections |->
                           sheet.sections[s].supplier_total_qty],
                       DOMAIN sheet.sections) = SumQtyAllocated(RealSupplierLines)
            /\ sheet.grand_total_qty = SumQtyAllocated(RealSupplierLines)
            /\ sheet.grand_total_amount = SumTotalCost(RealSupplierLines)

\* a final allocation with a shortage line of positive quantity next to lines
\* of two suppliers, the grand total row written
C19_Witness ==
    /\ FinalDone
    /\ \E k \in 1..Len(final_allocation) :
           /\ IsSentinelLine(final_allocation[k])
           /\ final_allocation[k].QtyAllocated > 0
    /\ Cardinality(DOMAIN OrdersBySupplier(final_allocation)) = 2
    /\ create_combined_suppliers_sheet(final_allocation, quotes_df, orders).grand_total_row

----------------------------------------------------------------------------
(* C20 *)

IsPinLine(l) ==
    l.AllocationSource \in {"Manual Selection", "Manual Selection (Partial)"}

IsRemainingLine(l) == l.AllocationSource = "Auto-Optimized (Remaining)"

\* C20: in the final allocation every real-supplier line of a part without a
\* pin has source Auto-Optimized; a part has at most one line with source
\* Manual Selection or Manual Selection (Partial), which then is the part's
\* first line, belongs to a pinned part and names the pinned supplier; and
\* lines with source Auto-Optimized (Remaining) occur only for a part whose
\* first line is Manual Selection (Partial).
C20_ProvenanceLabels ==
    FinalDone =>
        \A p \in OrderedParts :
            LET ls == FinalLines(p)
            IN  /\ ~Pinned(p) =>
                       \A k \in 1..Len(ls) :
                           ls[k].Supplier \in Suppliers =>
                               ls[k].AllocationSource = "Auto-Optimized"
                /\ \A k \in 1..Len(ls) :
                       IsPinLine(ls[k]) =>
                           /\ k = 1
                           /\ Pinned(p)
                           /\ ls[k].Supplier = supplier_selections[p]
                /\ \A k \in 1..Len(ls) :
                       IsRemainingLine(ls[k]) =>
                           ls[1].AllocationSource = "Manual Selection (Partial)"

\* a pinned part whose pin covers a part of the quantity: its first line is
\* the partial manual selection of the pinned supplier, the next line is a
\* remaining line of another supplier
C20_Witness ==
    /\ FinalDone
    /\ \E p \in OrderedParts :
           /\ Pinned(p)
           /\ Len(FinalLines(p)) >= 2
           /\ FinalLines(p)[1].AllocationSource = "Manual Selection (Partial)"
           /\ FinalLines(p)[1].Supplier = supplier_selections[p]
           /\ IsRemainingLine(FinalLines(p)[2])
           /\ FinalLines(p)[2].Supplier # supplier_selections[p]


----------------------------------------------------------------------------
(* C21 *)

\* the lines ls (quantities qty) of part p consume the quote rows f[k] from
\* the cheapest on: a row is used only when every strictly cheaper row of the
\* part is used in full, at most one used row is used in part, and no used
\* row is dearer than that one
CheapestFirst(p, qty, f) ==
    LET n == Len(qty)
        partial == {k \in 1..n : qty[k] < quotes_df[f[k]].AvailableQty}
    IN  /\ \A k \in 1..n :
               qty[k] > 0 =>
                   \A i \in QuoteIdx(p) :
                       quotes_df[i].UnitPrice < quotes_df[f[k]].UnitPrice =>
                           \E l \in 1..n :
                               f[l] = i /\ qty[l] = quotes_df[i].AvailableQty
        /\ Cardinality(partial) <= 1
        /\ \A k \in partial :
               \A l \in 1..n :
                   quotes_df[f[l]].UnitPrice <= quotes_df[f[k]].UnitPrice

\* C21: greedy consumption order.  In the allocation of an unpinned part (the
\* part's lines of the final allocation, and the lines Run Optimization gives
\* a part ordered in one row) a quote gets a non-zero allocation only if every
\* strictly cheaper quote of the part is allocated its whole AvailableQty; at
\* most one allocated quote is allocated less than its AvailableQty, and it is
\* the most expensive one used.
C21_GreedyOrder ==
    /\ FinalDone =>
           \A p \in OrderedParts :
               ~Pinned(p) =>
                   LET ls == FinalSupplierLines(p)
                       qty == [k \in 1..Len(ls) |-> ls[k].QtyAllocated]
                   IN  \E f \in DrawnFrom(p, ls) : CheapestFirst(p, qty, f)
    /\ processing_complete =>
           \A p \in OrderedParts :
               Cardinality(OrderRowsOf(p)) = 1 =>
                   LET ls == OptSupplierLines(p)
                       qty == [k \in 1..Len(ls) |-> ls[k].AllocatedQty]
                   IN  \E f \in DrawnFrom(p, ls) : CheapestFirst(p, qty, f)

\* an unpinned part with a cheap and a dear quote, the dear one listed first:
\* both runs use the cheap quote in full and a part of the dear one
C21_Witness ==
    /\ FinalDone
    /\ processing_complete
    /\ \E p \in OrderedParts :
           /\ ~Pinned(p)
           /\ Cardinality(OrderRowsOf(p)) = 1
           /\ Len(OptSupplierLines(p)) = 2
           /\ \E i, j \in QuoteIdx(p) :
                  LET ls == FinalSupplierLines(p)
                  IN  /\ i < j
                      /\ quotes_df[j].UnitPrice < quotes_df[i].UnitPrice
                      /\ Len(ls) = 2
                      /\ ls[1].Supplier = quotes_df[j].Supplier
                      /\ ls[1].QtyAllocated = quotes_df[j].AvailableQty
                      /\ ls[2].Supplier = quotes_df[i].Supplier
                      /\ ls[2].QtyAllocated < quotes_df[i].AvailableQty

----------------------------------------------------------------------------
(* C27 *)

\* supplier, quantity and unit price of the supplier lines of part p, in order
FinalPurchases(p) ==
    [k \in 1..Len(FinalSupplierLines(p)) |->
        LET l == FinalSupplierLines(p)[k]
        IN  << l.Supplier, l.QtyAllocated, l.UnitPrice >>]

OptPurchases(p) ==
    [k \in 1..Len(OptSupplierLines(p)) |->
        LET l == OptSupplierLines(p)[k]
        IN  << l.Supplier, l.AllocatedQty, l.UnitPrice >>]

\* the quantity of part p the final allocation reports as not bought
FinalUnmet(p) == SumQtyAllocated(SelectSeq(FinalLines(p), IsFinalShortage))

\* the quantity of part p Run Optimization reports as not bought: the
\* quantity of its SHORTAGE lines and the QtyRequired of its NOT AVAILABLE lines
OptUnmet(p) ==
    LET ls == OptLines(p)
    IN  SumOver([k \in 1..Len(ls) |->
                    IF ls[k].Status = "Shortage" THEN ls[k].AllocatedQty
                    ELSE IF ls[k].Status = "Not Available" THEN ls[k].QtyRequired
                    ELSE 0],
                1..Len(ls))

RunsAgreeOn(p) ==
    /\ FinalPurchases(p) = OptPurchases(p)
    /\ FinalUnmet(p) = OptUnmet(p)

\* C27: with no pins set, Generate Final Allocation and Run Optimization,
\* run on the same order and quote tables, give every ordered part the same
\* supplier lines (supplier, quantity, unit price, in the same order) and the
\* same unmet quantity, parts without quotes and parts ordered in more than
\* one row included.
C27_RunsAgreeWithoutPins ==
    (FinalDone /\ processing_complete /\ supplier_selections = << >>) =>
        \A p \in OrderedParts : RunsAgreeOn(p)

----------------------------------------------------------------------------
(* C28 *)

\* C28: in every state of a session every entry of supplier_selections maps
\* a part of the current order to a supplier with a quote for that part in
\* the current quote table, also after other order or quote files have been
\* uploaded.
C28_PinsAreQuoted ==
    \A p \in DOMAIN supplier_selections :
        /\ p \in OrderedParts
        /\ PinQuoted(p)

----------------------------------------------------------------------------
(* C29 *)

\* C29: the Manual Override Cost of Cost Analysis equals the total cost of
\* the final allocation generated from the same orders, quotes and selections
\* (all parts, pinned or not), so that Cost Difference is the final
\* allocation's cost minus the auto-optimized cost, and is 0 when no pin is set.
C29_ManualCostIsFinalCost ==
    (FinalDone /\ processing_complete) =>
        /\ manual_cost(orders, quotes_df, supplier_selections, argsort_ties)
               = SumTotalCost(final_allocation)
        /\ cost_diff(optimized_allocation, orders, quotes_df, supplier_selections,
                     argsort_ties)
               = SumTotalCost(final_allocation) - auto_cost(optimized_allocation)
        /\ supplier_selections = << >> =>
               cost_diff(optimized_allocation, orders, quotes_df,
                         supplier_selections, argsort_ties) = 0

----------------------------------------------------------------------------
(* C30 *)

\* the Suppliers sheet written with the final allocation just generated
SuppliersSheet == create_combined_suppliers_sheet(final_allocation, quotes_df, orders)

\* C30: in the Suppliers sheet the quantities balance: the GRAND TOTAL
\* quantity (all real-supplier allocations; nothing when the row is not
\* written) plus the SUBTOTAL - N/A quantity (shortages and not available
\* parts, each part once) equals the TOTAL QTY row, and that row is the sum
\* of QtyRequired over the order table.
C30_SheetBalances ==
    FinalDone =>
        /\ SuppliersSheet.grand_total_qty + SuppliersSheet.not_available_total_qty
               = SuppliersSheet.total_qty_required
        /\ SuppliersSheet.total_qty_required
               = SumOver([i \in 1..Len(orders) |-> orders[i].QtyRequired],
                         1..Len(orders))

----------------------------------------------------------------------------
(* C22 *)

\* max_login_attempts failed logins are recorded for user u, and no more
\* than lockout_duration_minutes have passed since the last of them
LockedOutAt(u) ==
    /\ u \in DOMAIN login_attempts
    /\ login_attempts[u].count >= max_login_attempts
    /\ now - login_attempts[u].lockout_time[1] <= lockout_duration_minutes

\* the password of user u in the user store
IsPasswordOf(pw, u) ==
    /\ u \in DOMAIN load_users(users_json)
    /\ load_users(users_json)[u].password_hash = hash_password(pw)

\* a step in which the failed login that exhausts the attempts is recorded
\* stamps the lockout with the time of that failure
LockoutStamped ==
    \A u \in LoginNames :
        (/\ u \in DOMAIN login_attempts'
         /\ login_attempts'[u].count >= max_login_attempts
         /\ (u \notin DOMAIN login_attempts
               \/ login_attempts[u].count < max_login_attempts))
        => /\ login_attempts'[u].count = max_login_attempts
           /\ login_attempts'[u].lockout_time = << now >>
           /\ returned' \in {Call("authenticate_user", << u, pw >>, False) :
                                pw \in Passwords}

\* C22: login lockout.  Once max_login_attempts (3) failed logins are
\* recorded for a username, with no successful login in between, every
\* authenticate_user call for that username returns False, leaves the session
\* as it was (unauthenticated), also with the correct password, and records
\* no further attempt, as long as no more than lockout_duration_minutes (15)
\* have passed since the failure that triggered the lockout.
C22_LoginLockout ==
    [][/\ LockoutStamped
       /\ \A u \in LoginNames, pw \in Passwords :
              (LockedOutAt(u) /\ authenticate_user(u, pw)) =>
                  /\ returned'.value = False
                  /\ UNCHANGED session_vars
                  /\ login_attempts' = login_attempts]_vars

\* the correct password of the locked user has just been refused, exactly
\* lockout_duration_minutes after the third failure, in a session that is
\* not authenticated
C22_Witness ==
    /\ returned = Call("authenticate_user", << "aman", "0506334625" >>, False)
    /\ ~authenticated
    /\ "aman" \in DOMAIN login_attempts
    /\ login_attempts["aman"].count = max_login_attempts
    /\ now - login_attempts["aman"].lockout_time[1] = lockout_duration_minutes

----------------------------------------------------------------------------
(* C23 *)

\* the failed logins recorded for user u in login_attempts
FailedCount(attempts, u) == IF u \in DOMAIN attempts THEN attempts[u].count ELSE 0

\* the lockout of user u has run out: more than lockout_duration_minutes ago
LockoutElapsed(u) ==
    /\ u \in DOMAIN login_attempts
    /\ login_attempts[u].count >= max_login_attempts
    /\ now - login_attempts[u].lockout_time[1] > lockout_duration_minutes

\* C23: the failed-login counter of a username counts the failures since the
\* last successful login or the last expired lockout only: a successful
\* authenticate_user leaves it at 0, the first authenticate_user after the
\* lockout period restarts it from 0, a refused password adds exactly one to
\* it, and a user who is not locked out and gives the correct password is
\* authenticated.
C23_CounterResets ==
    [][\A u \in LoginNames, pw \in Passwords :
          authenticate_user(u, pw) =>
              /\ returned'.value = True =>
                     FailedCount(login_attempts', u) = 0
              /\ LockoutElapsed(u) =>
                     FailedCount(login_attempts', u)
                         = (IF IsPasswordOf(pw, u) THEN 0 ELSE 1)
              /\ (~LockedOutAt(u) /\ ~LockoutElapsed(u) /\ ~IsPasswordOf(pw, u)) =>
                     FailedCount(login_attempts', u)
                         = FailedCount(login_attempts, u) + 1
              /\ (~LockedOutAt(u) /\ IsPasswordOf(pw, u)) =>
                     /\ returned'.value = True
                     /\ authenticated'
                     /\ username' = u
                     /\ login_time' = << now >>]_vars

\* the user has failed before, was locked out or not, and has just logged in
\* with the correct password after the lockout period: the counter is at 0
C23_Witness ==
    /\ returned = Call("authenticate_user", << "aman", "0506334625" >>, True)
    /\ authenticated
    /\ username = "aman"
    /\ now > lockout_duration_minutes
    /\ login_time = << now >>
    /\ "aman" \in DOMAIN login_attempts
    /\ login_attempts["aman"].count = 0

----------------------------------------------------------------------------
(* C24 *)

\* the session is authenticated and more than session_timeout_minutes have
\* passed since login_time
SessionOverdue ==
    /\ authenticated
    /\ login_time # NoTime
    /\ now - login_time[1] > session_timeout_minutes

SuccessfulLogin ==
    \E u \in LoginNames, pw \in Passwords :
        authenticate_user(u, pw) /\ returned'.value = True

\* C24: session expiry.  is_session_valid returns True only if the session
\* is authenticated and at most session_timeout_minutes (10) have passed
\* since login_time, which is the time of the login or of the last
\* refresh_session; when more time has passed it logs the user out
\* (authenticated False; username, role, login time and token cleared) and
\* returns False; and a session that is not authenticated becomes
\* authenticated by a successful login only.
C24_SessionExpiry ==
    [][/\ is_session_valid =>
              /\ returned'.value = True =>
                     /\ authenticated
                     /\ login_time # NoTime
                     /\ now - login_time[1] <= session_timeout_minutes
                     /\ UNCHANGED session_vars
              /\ SessionOverdue =>
                     /\ returned'.value = False
                     /\ authenticated' = FALSE
                     /\ username' = None
                     /\ user_role' = None
                     /\ login_time' = NoTime
                     /\ session_token' = None
       /\ (login_time' # login_time /\ login_time' # NoTime) =>
              /\ login_time' = << now >>
              /\ SuccessfulLogin \/ (refresh_session /\ authenticated)
       /\ (~authenticated /\ authenticated') => SuccessfulLogin]_vars

\* is_session_valid has just answered True exactly session_timeout_minutes
\* after a refresh or a login that took place later than the first minute
C24_Witness ==
    /\ returned = Call("is_session_valid", << >>, True)
    /\ authenticated
    /\ login_time # NoTime
    /\ login_time[1] > 0
    /\ now - login_time[1] = session_timeout_minutes

----------------------------------------------------------------------------
(* C25 *)

\* the call just made returned False and left the file users.json alone
Refused == returned'.value = False /\ UNCHANGED users_json

\* C25: user management is admin only.  create_new_user, delete_user,
\* update_user_password and update_user_role return False and leave the user
\* store unchanged whenever the role of the current session is not admin;
\* create_new_user does so too when the username already exists.
C25_AdminOnly ==
    [][/\ \A u \in UserNames, pw \in Passwords, r \in Roles :
              (create_new_user(u, pw, r)
                  /\ (user_role # "admin" \/ u \in DOMAIN load_users(users_json)))
              => Refused
       /\ \A u \in UserNames :
              (delete_user(u) /\ user_role # "admin") => Refused
       /\ \A u \in UserNames, pw \in Passwords :
              (update_user_password(u, pw) /\ user_role # "admin") => Refused
       /\ \A u \in UserNames, r \in Roles :
              (update_user_role(u, r) /\ user_role # "admin") => Refused]_vars

\* a logged-in user whose role is not admin has just been refused the
\* deletion of the user aman, who is still in the store
C25_Witness ==
    /\ returned = Call("delete_user", << "aman" >>, False)
    /\ authenticated
    /\ user_role = "user"
    /\ "aman" \in DOMAIN load_users(users_json)

----------------------------------------------------------------------------
(* C26 *)

\* C26: admin protection.  Starting from the default user store, whatever
\* delete_user and update_user_role calls the sessions of administrators
\* make, the store holds at least one user with role admin.
C26_AnAdminRemains ==
    \E u \in DOMAIN load_users(users_json) : load_users(users_json)[u].role = "admin"
====
